---- MODULE Spec2Model ----
(***************************************************************************)
(* Model of the API documentation finder: the per-method discovery         *)
(* pipeline (processor.py), its three search components                    *)
(* (openapi_search.py, postman_search.py, serp_search.py), the shared      *)
(* HTTP transport (http_client.py) and the batch driver (main.py).         *)
(*                                                                         *)
(* Python values are modelled as strings: NoneV is None, ExcV is an        *)
(* exception object handed back by asyncio.gather(return_exceptions=True), *)
(* "" and "error" are the two sentinels of the result record, every other  *)
(* string is a URL.  Coroutines advance from one suspension point (a       *)
(* transport call or a gather) to the next in one step.                    *)
(***************************************************************************)
EXTENDS Integers, Sequences, FiniteSets, TLC

VARIABLES
    session,         \* AsyncHTTPClient.session: "none" | "open" | "closed"
    max_concurrent,  \* AsyncHTTPClient.max_concurrent
    semaphore,       \* free permits of AsyncHTTPClient.semaphore
    api_method,      \* the descriptor handed to process_method
    pc,              \* position of process_method: "idle" | "tier1" | "serp" | "done"
    ph,              \* position of every coroutine: "idle" | "call" | "wait" | "flight" | "done"
    ret,             \* value every coroutine returned (NoneV until it does)
    oaIdx,           \* find_openapi: index into STANDARD_PATHS of the path being checked
    oaOp,            \* _check_path: the request it is at, "head" | "get"
    head_status,     \* the status the HEAD request in flight comes back with (0: none in flight)
    get_body,        \* per caller: what its GET request in flight comes back with
    network,         \* "up", or "down": every request times out or fails to connect
    seen,            \* per strategy, slot and find_openapi: what its last fetch came back with
    openapi_link,    \* process_method local
    postman_link,    \* process_method local
    serp_invoked,    \* serp_search.search_all was called by process_method
    outcome,         \* what process_method handed to its caller
    transportRaised, \* some head/get call raised to its caller
    reordered,       \* some slot of search_all completed before a slot declared ahead of it
    rejected,        \* find_openapi: the indices of the paths _check_path returned False for
    \* main.py: the batch run
    api_methods,     \* the descriptors loaded from the input file
    main_pc,         \* position of main: "init" | "running" | "gathered" | "saved" | "failed"
    task,            \* per descriptor: its process_with_logging task, "none" | "pending" | "serp" | "done"
    gathered,        \* per descriptor: what its process_method got from its gathers
    task_outcome,    \* per descriptor: what its task ended with
    log,             \* per descriptor: the lines ProgressLogger wrote for it
    pbar,            \* ProgressLogger's progress counter
    completion,      \* the tasks in the order they ended (the order of the log lines)
    results,         \* the list main hands to OutputWriter.save_results
    \* serp_search.py: one slot from its parsed response on
    response_results, \* the organic_results / references of the response
    select_method,   \* the descriptor the slot searches for
    engine,          \* the engine of the slot that returned: "none" | "google_light" | "google_ai_mode"
    selected,        \* what the slot returned
    \* serp_search.py: one candidate put to the filter and the scorer
    candidate,       \* the result: its link, title and snippet
    relevance,       \* what _is_relevant_to_service said of it: "unknown" | "kept" | "discarded"
    prior_relevance, \* what it said before the title last changed
    url_score,       \* what _score_url_relevance gave for its link
    tokens_added,    \* how many words were added to the title
    \* output.py: the two files OutputWriter.save_results writes
    csv_rows,        \* the rows written to {output_base}.csv, NoFile before
    json_items,      \* the objects written to {output_base}.json, NoFile before
    \* loader.py: one call of InputLoader.load_from_file
    suffix,          \* file_path.suffix.lower(): ".csv" | ".json"
    raw_rows,        \* the rows csv.DictReader yields, or the items of the JSON array
    load_outcome,    \* load_from_file: "none" | "return" | "ValueError"
    loaded,          \* the list load_from_file returned, <<>> if it did not
    \* postman_search.py, serp_search.py: one host normalisation
    host,            \* the netloc of the URL handed in
    host_routine,    \* who cleaned it: "none" | "_search_by_domain" | "method_domain" | "url_domain"
    host_clean,      \* domain_clean / method_domain_clean / url_domain_clean
    \* convert_to_tracker_format.py: one call of convert_results
    converted,       \* how many records of the results file the loop has taken
    last_result,     \* `result`, the record of the last iteration, NoResult before the first
    tracker_format   \* the entries appended so far

vars == <<session, max_concurrent, semaphore, api_method, pc, ph, ret, oaIdx,
          oaOp, head_status, get_body, network, seen, openapi_link, postman_link,
          serp_invoked, outcome, transportRaised, reordered, rejected, api_methods, main_pc, task,
          gathered, task_outcome, log, pbar, completion, results,
          response_results, select_method, engine, selected,
          candidate, relevance, prior_relevance, url_score, tokens_added,
          csv_rows, json_items,
          suffix, raw_rows, load_outcome, loaded,
          host, host_routine, host_clean,
          converted, last_result, tracker_format>>

\* The state of the batch run of main.py.
batchVars == <<api_methods, main_pc, task, gathered, task_outcome, log, pbar,
               completion, results>>

\* The state of one slot taken from its parsed response on.
selectVars == <<response_results, select_method, engine, selected>>

\* The state of one candidate put to the filter and the scorer.
candidateVars == <<candidate, relevance, prior_relevance, url_score, tokens_added>>

\* The files save_results writes.
outputVars == <<csv_rows, json_items>>

\* The state of one load of the input file.
loaderVars == <<suffix, raw_rows, load_outcome, loaded>>

\* The host normalisation: the host of the URL handed in, the routine that
\* cleaned it ("none" before any did) and the cleaned host.
hostVars == <<host, host_routine, host_clean>>

\* convert_results: the records read so far, the last of them and the entries.
trackerVars == <<converted, last_result, tracker_format>>

\* The state of one method's pipeline and of the transport.
pipelineVars == <<session, max_concurrent, semaphore, api_method, pc, ph, ret, oaIdx,
                  oaOp, head_status, get_body, network, seen, openapi_link, postman_link,
                  serp_invoked, outcome, transportRaised, reordered, rejected>>

----------------------------------------------------------------------------
(* Bounds *)

\* Largest concurrency cap explored (the cap is a constructor argument).
MaxCap == 2

\* Largest number of descriptors in a batch.
MaxBatch == 2

\* Largest number of candidates in the response of a slot.
MaxResults == 3

\* Largest number of words added to the title of a candidate.
MaxTokens == 1

\* Largest number of copies of one candidate ahead of the others in a long
\* response, and largest number of candidates after them.
MaxPad == 10
MaxTail == 2

----------------------------------------------------------------------------
(* Values *)

NoneV == "<None>"
ExcV == "<Exception>"

Truthy(v) == v \notin {NoneV, ""}

\* A key the JSON object does not have.
Absent == "<absent>"

\* row.get(field, ''), item.get(field, '') and result.get(field, '')
get(row, f) == IF row[f] = Absent THEN "" ELSE row[f]

\* The record convert_results has in hand before it has read one.
NoResult ==
    [name |-> "", method |-> "", method_link |-> "",
     openapi_link |-> "", postman_link |-> "",
     search_method_name |-> "", search_method_link |-> "",
     ai_method_name |-> "", ai_method_link |-> ""]

\* isinstance(v, Exception)
IsException(v) == v = ExcV

\* asyncio.gather without return_exceptions=True: the first exception among the
\* results is raised to the awaiting coroutine.
gather_first_exception(rs) ==
    IF \E k \in DOMAIN rs : IsException(rs[k])
    THEN [kind |-> "raise", value |-> rs]
    ELSE [kind |-> "return", value |-> rs]

\* asyncio.gather(..., return_exceptions=True) once every awaitable is done:
\* the results in the order of the awaitables, exceptions among them.
gather_return_exceptions(rs) == [kind |-> "return", value |-> rs]

\* A gather handing the results back in the order the awaitables ended.
gather_in_completion_order(rs) ==
    IF \E k \in DOMAIN rs : rs[k].kind # "return"
    THEN [kind |-> "raise", value |-> rs]
    ELSE [kind |-> "return", value |-> [k \in DOMAIN rs |-> rs[completion[k]]]]

\* asyncio.gather(...) with return_exceptions=False: the first exception of
\* an awaitable is raised to the caller; the results are in the order of the
\* awaitables.
gather(rs) ==
    IF \E k \in DOMAIN rs : rs[k].kind # "return"
    THEN [kind |-> "raise", value |-> rs]
    ELSE [kind |-> "return", value |-> rs]

STANDARD_PATHS ==
    << "/openapi.json", "/openapi.yaml", "/swagger.json", "/swagger.yaml",
       "/api-docs", "/redoc" >>

\* Descriptors: the example URL is kept as the components urlparse yields.
Descriptors ==
    { [name |-> "Zoom", method |-> "Create meeting",
       scheme |-> "https", netloc |-> "api.zoom.us", path |-> "/v2/users/me/meetings"],
      [name |-> "Zoom", method |-> "Create meeting",
       scheme |-> "", netloc |-> "", path |-> "not a url"] }

\* OpenAPISearch._extract_domain
extract_domain(d) == d.scheme \o "://" \o d.netloc

\* The transport can only send a request to a URL with a scheme and a host.
Sendable(d) == d.scheme # "" /\ d.netloc # ""

\* Status codes a HEAD request can come back with; -1 is the error sentinel.
StatusCodes == {-1, 200, 404, 405}

\* What AsyncHTTPClient.get hands back, by what its consumers tell apart:
\* None (non-200 status, timeout, client error), an empty body, text that is
\* neither markup with a collection link nor JSON, markup with a collection
\* link, JSON with a top-level error field beside relevant results, JSON with
\* no results, JSON whose results all fail the relevance filter, JSON with a
\* relevant result.
Bodies ==
    { NoneV, "", "text", "html-collection", "json-error", "json-empty",
      "json-irrelevant", "json-relevant" }

\* No GET request of the caller is in flight.
NoBody == "<no request>"

Tier1Units == {"openapi", "postman"}
Strategies == {"by_name", "by_domain"}
Slots == {"search_method_name", "search_method_link", "ai_method_name", "ai_method_link"}
SlotOrder == <<"search_method_name", "search_method_link", "ai_method_name", "ai_method_link">>
Units == Tier1Units \cup Strategies \cup Slots
\* The coroutines that call the transport.
Callers == {"openapi"} \cup Strategies \cup Slots

\* The coroutines whose last fetch is kept: the strategies and the slots make
\* one request each, find_openapi at most one fetch per path.
Observed == {"openapi"} \cup Strategies \cup Slots


----------------------------------------------------------------------------
(* openapi_search.py *)

\* _check_path retrying with GET after status 404 as after any other status.
check_path_head_get_on_404(status) ==
    IF status = -1 THEN "false"
    ELSE IF status = 200 THEN "true"
    ELSE "get"

\* OpenAPISearch._check_path, after the HEAD request: "true" (exists),
\* "false" (does not), "get" (retry with GET).
check_path_head(status) ==
    IF status = -1 THEN "false"
    ELSE IF status = 200 THEN "true"
    ELSE IF status # 404 THEN "get"
    ELSE "false"

\* _check_path taking only a body that is not empty as confirmation.
check_path_get_non_empty(body) == IF body \notin {NoneV, ""} THEN "true" ELSE "false"

\* OpenAPISearch._check_path, after the GET request.
check_path_get(body) == IF body # NoneV THEN "true" ELSE "false"

\* find_openapi answering "error" for a URL without scheme and host.
find_openapi_step_error(d, idx, verdict) ==
    IF ~Sendable(d)
    THEN [ph |-> "done", ret |-> "error", idx |-> 1, op |-> "head"]
    ELSE IF verdict = "true"
    THEN [ph |-> "done", ret |-> extract_domain(d) \o STANDARD_PATHS[idx],
          idx |-> 1, op |-> "head"]
    ELSE IF verdict = "get"
    THEN [ph |-> "call", ret |-> NoneV, idx |-> idx, op |-> "get"]
    ELSE IF idx < Len(STANDARD_PATHS)
    THEN [ph |-> "call", ret |-> NoneV, idx |-> idx + 1, op |-> "head"]
    ELSE [ph |-> "done", ret |-> NoneV, idx |-> 1, op |-> "head"]

\* find_openapi appending the path to the whole example URL.
find_openapi_step_whole_url(d, idx, verdict) ==
    IF verdict = "true"
    THEN [ph |-> "done",
          ret |-> d.scheme \o "://" \o d.netloc \o d.path \o STANDARD_PATHS[idx],
          idx |-> 1, op |-> "head"]
    ELSE IF verdict = "get"
    THEN [ph |-> "call", ret |-> NoneV, idx |-> idx, op |-> "get"]
    ELSE IF idx < Len(STANDARD_PATHS)
    THEN [ph |-> "call", ret |-> NoneV, idx |-> idx + 1, op |-> "head"]
    ELSE [ph |-> "done", ret |-> NoneV, idx |-> 1, op |-> "head"]

\* find_openapi passing over the path after one that was rejected.
find_openapi_step_skips(d, idx, verdict) ==
    IF verdict = "true"
    THEN [ph |-> "done", ret |-> extract_domain(d) \o STANDARD_PATHS[idx],
          idx |-> 1, op |-> "head"]
    ELSE IF verdict = "get"
    THEN [ph |-> "call", ret |-> NoneV, idx |-> idx, op |-> "get"]
    ELSE IF idx + 1 < Len(STANDARD_PATHS)
    THEN [ph |-> "call", ret |-> NoneV, idx |-> idx + 2, op |-> "head"]
    ELSE [ph |-> "done", ret |-> NoneV, idx |-> 1, op |-> "head"]

\* find_openapi going on to the next path after a path was confirmed, and
\* returning at the end of the list.
find_openapi_step_checks_all(d, idx, verdict) ==
    IF verdict = "get"
    THEN [ph |-> "call", ret |-> NoneV, idx |-> idx, op |-> "get"]
    ELSE IF idx < Len(STANDARD_PATHS)
    THEN [ph |-> "call", ret |-> NoneV, idx |-> idx + 1, op |-> "head"]
    ELSE IF verdict = "true"
    THEN [ph |-> "done", ret |-> extract_domain(d) \o STANDARD_PATHS[idx],
          idx |-> 1, op |-> "head"]
    ELSE [ph |-> "done", ret |-> NoneV, idx |-> 1, op |-> "head"]

\* OpenAPISearch.find_openapi: one turn of the loop over STANDARD_PATHS, given
\* the verdict on the path at index idx.  The coroutine's next local state.
find_openapi_step(d, idx, verdict) ==
    IF verdict = "true"
    THEN [ph |-> "done", ret |-> extract_domain(d) \o STANDARD_PATHS[idx],
          idx |-> 1, op |-> "head"]
    ELSE IF verdict = "get"
    THEN [ph |-> "call", ret |-> NoneV, idx |-> idx, op |-> "get"]
    ELSE IF idx < Len(STANDARD_PATHS)
    THEN [ph |-> "call", ret |-> NoneV, idx |-> idx + 1, op |-> "head"]
    ELSE [ph |-> "done", ret |-> NoneV, idx |-> 1, op |-> "head"]

----------------------------------------------------------------------------
(* postman_search.py *)

\* The first href="/<workspace>/collection/<id>" of the markup the collection
\* search answers a strategy's query with.
CollectionPath(u) ==
    IF u = "by_name" THEN "/zoom-by-name/collection/1" ELSE "/zoom-by-domain/collection/2"

\* PostmanSearch._search_by_name, _search_by_domain: from the response text on.
search_by(u, body) ==
    IF ~Truthy(body) THEN NoneV
    ELSE IF body = "html-collection"
    THEN "https://www.postman.com" \o CollectionPath(u)
    ELSE NoneV

\* The loop over the gathered results taken from the last strategy backwards.
first_successful_reversed(rs) ==
    IF Truthy(rs[2]) /\ ~IsException(rs[2]) /\ rs[2] # "error"
    THEN rs[2]
    ELSE IF Truthy(rs[1]) /\ ~IsException(rs[1]) /\ rs[1] # "error"
    THEN rs[1]
    ELSE NoneV

\* PostmanSearch.find_postman_collection: the loop over the gathered results.
first_successful(rs) ==
    IF Truthy(rs[1]) /\ ~IsException(rs[1]) /\ rs[1] # "error"
    THEN rs[1]
    ELSE IF Truthy(rs[2]) /\ ~IsException(rs[2]) /\ rs[2] # "error"
    THEN rs[2]
    ELSE NoneV

\* find_postman_collection answering "error" when no strategy has a link.
find_postman_collection_result_error(g) ==
    IF g.kind = "raise" THEN NoneV
    ELSE IF Truthy(first_successful(g.value)) THEN first_successful(g.value)
    ELSE "error"

\* PostmanSearch.find_postman_collection from its gather on.
find_postman_collection_result(g) ==
    IF g.kind = "raise" THEN NoneV ELSE first_successful(g.value)

----------------------------------------------------------------------------
(* serp_search.py *)

\* json.loads succeeds on the body.
IsJson(body) == body \in {"json-error", "json-empty", "json-irrelevant", "json-relevant"}

\* The link _select_best_result picks from the response to a slot's query.
BestLink(s) == "https://developers.zoom.us/docs/api/" \o s

\* _select_best_result without the relevance filter: the best-scoring
\* candidate is picked from any non-empty candidate list.
select_best_result_unfiltered(s, body) ==
    IF body \in {"json-relevant", "json-error", "json-irrelevant"}
    THEN BestLink(s) ELSE NoneV

\* SerpAPIMultiSearch._select_best_result on the candidates of the body.
select_best_result(s, body) ==
    IF body \in {"json-relevant", "json-error"} THEN BestLink(s) ELSE NoneV

\* _search_google_light without the test for a top-level error field.
search_google_light_no_error_field(s, body) ==
    IF ~Truthy(body) THEN "error"
    ELSE IF ~IsJson(body) THEN "error"
    ELSE IF Truthy(select_best_result(s, body)) THEN select_best_result(s, body)
    ELSE "error"

\* SerpAPIMultiSearch._search_google_light from the response text on.
search_google_light(s, body) ==
    IF ~Truthy(body) THEN "error"
    ELSE IF ~IsJson(body) THEN "error"
    ELSE IF body = "json-error" THEN "error"
    ELSE IF Truthy(select_best_result(s, body)) THEN select_best_result(s, body)
    ELSE "error"

\* _search_google_ai_mode returning None, not "error", for an empty response.
search_google_ai_mode_none(s, body) ==
    IF ~Truthy(body) THEN NoneV
    ELSE IF ~IsJson(body) THEN "error"
    ELSE IF body = "json-error" THEN "error"
    ELSE IF body = "json-empty" THEN "error"
    ELSE IF Truthy(select_best_result(s, body)) THEN select_best_result(s, body)
    ELSE "error"

\* SerpAPIMultiSearch._search_google_ai_mode from the response text on.
search_google_ai_mode(s, body) ==
    IF ~Truthy(body) THEN "error"
    ELSE IF ~IsJson(body) THEN "error"
    ELSE IF body = "json-error" THEN "error"
    ELSE IF body = "json-empty" THEN "error"
    ELSE IF Truthy(select_best_result(s, body)) THEN select_best_result(s, body)
    ELSE "error"

\* The engine search_all runs a slot on.
slot_result(s, body) ==
    IF s \in {"search_method_name", "search_method_link"}
    THEN search_google_light(s, body)
    ELSE search_google_ai_mode(s, body)

\* SerpAPIMultiSearch.search_all: one gathered result to its field.
search_all_field(r) == IF ~IsException(r) THEN r ELSE "error"

\* SerpAPIMultiSearch.search_all from its gather on: the SearchResults.
search_all_results(g) ==
    IF g.kind = "raise" THEN [s \in Slots |-> "error"]
    ELSE [s \in Slots |-> search_all_field(g.value[s])]

----------------------------------------------------------------------------
(* processor.py *)

\* The descriptor's example URL as the string it was given as.
method_link(d) ==
    IF d.scheme # "" THEN d.scheme \o "://" \o d.netloc \o d.path ELSE d.path

ProcessingResult(d, oa, pm, smn, sml, amn, aml) ==
    [name |-> d.name, method |-> d.method, method_link |-> method_link(d),
     openapi_link |-> oa, postman_link |-> pm,
     search_method_name |-> smn, search_method_link |-> sml,
     ai_method_name |-> amn, ai_method_link |-> aml]

LinkFields ==
    {"openapi_link", "postman_link", "search_method_name", "search_method_link",
     "ai_method_name", "ai_method_link"}

\* x or ""
or_empty(v) == IF Truthy(v) THEN v ELSE ""

\* A gathered tier-1 exception turned into the "error" sentinel.
tier1_link_error(r) == IF ~IsException(r) THEN r ELSE "error"

\* A gathered tier-1 result taken without the isinstance test.
tier1_link_unchecked(r) == r

\* process_method: a gathered tier-1 result to the local link.
tier1_link(r) == IF ~IsException(r) THEN r ELSE NoneV

\* process_method from the tier-1 gather on: the two local links.
tier1_links(g) ==
    IF g.kind = "raise" THEN <<NoneV, NoneV>>
    ELSE <<tier1_link(g.value[1]), tier1_link(g.value[2])>>

\* The test that skips the web search looking at openapi_link only.
tier1_found_openapi_only(oa, pm) == Truthy(oa)

\* process_method: the test that skips the web search.
tier1_found(oa, pm) == Truthy(oa) \/ Truthy(pm)

\* The record of a tier-1 hit that keeps the collection link only when the
\* path probe has none.
result_tier1_openapi_wins(d, oa, pm) ==
    ProcessingResult(d, or_empty(oa), IF Truthy(oa) THEN "" ELSE or_empty(pm),
                     "", "", "", "")

\* process_method: the record returned when a tier-1 link was found.
result_tier1(d, oa, pm) ==
    ProcessingResult(d, or_empty(oa), or_empty(pm), "", "", "", "")

\* The record built with the fields filled in the order the results could
\* have arrived in: the first and the last slot change places.
result_serp_swapped(d, sr) ==
    ProcessingResult(d, "", "",
        or_empty(sr["ai_method_link"]), or_empty(sr["search_method_link"]),
        or_empty(sr["ai_method_name"]), or_empty(sr["search_method_name"]))

\* process_method: the record built from search_all's SearchResults.
result_serp(d, sr) ==
    ProcessingResult(d, "", "",
        or_empty(sr["search_method_name"]), or_empty(sr["search_method_link"]),
        or_empty(sr["ai_method_name"]), or_empty(sr["ai_method_link"]))

\* process_method: the record returned when search_all raised.
result_serp_failed(d) ==
    ProcessingResult(d, "", "", "error", "error", "error", "error")

\* process_method's outer handler, and process_with_logging's handlers.
result_error(d) ==
    ProcessingResult(d, "error", "error", "error", "error", "error", "error")

\* No record: what outcome holds before process_method returns.
NoRecord == [name |-> "", method |-> "", method_link |-> "",
             openapi_link |-> NoneV, postman_link |-> NoneV,
             search_method_name |-> NoneV, search_method_link |-> NoneV,
             ai_method_name |-> NoneV, ai_method_link |-> NoneV]

Returned(rec) == [kind |-> "return", rec |-> rec]
Raised == [kind |-> "raise", rec |-> NoRecord]
Pending == [kind |-> "pending", rec |-> NoRecord]

\* process_method: the try around the call of search_all.
process_method_serp(d, called) ==
    IF called.kind = "raise" THEN Returned(result_serp_failed(d))
    ELSE Returned(result_serp(d, called.value))

\* process_method: the outermost try.
process_method_outer(d, inner) ==
    IF inner.kind = "raise" THEN Returned(result_error(d)) ELSE inner


----------------------------------------------------------------------------
(* Python's str and urllib.parse.urlparse, as serp_search.py uses them       *)

\* n in h
In(n, h) == \E i \in 1..(Len(h) - Len(n) + 1) : SubSeq(h, i, i + Len(n) - 1) = n

\* h.startswith(n)
StartsWith(h, n) == Len(n) <= Len(h) /\ SubSeq(h, 1, Len(n)) = n

\* h.endswith(n)
EndsWith(h, n) == Len(n) <= Len(h) /\ SubSeq(h, Len(h) - Len(n) + 1, Len(h)) = n

\* h.find(n) + 1: the place of the first occurrence of n in h, 0 if there is none.
Find(h, n) ==
    IF In(n, h)
    THEN CHOOSE i \in 1..(Len(h) - Len(n) + 1) :
            /\ SubSeq(h, i, i + Len(n) - 1) = n
            /\ \A j \in 1..(i - 1) : SubSeq(h, j, j + Len(n) - 1) # n
    ELSE 0

UpperCase == "ABCDEFGHIJKLMNOPQRSTUVWXYZ"
LowerCase == "abcdefghijklmnopqrstuvwxyz"

\* c.lower() for one character
LowerChar(c) ==
    IF In(c, UpperCase)
    THEN SubSeq(LowerCase, Find(UpperCase, c), Find(UpperCase, c))
    ELSE c

RECURSIVE Lower(_)
\* s.lower()
Lower(s) ==
    IF s = "" THEN ""
    ELSE LowerChar(SubSeq(s, 1, 1)) \o Lower(SubSeq(s, 2, Len(s)))

RECURSIVE Remove(_, _)
\* h.replace(n, ''), n not empty
Remove(h, n) ==
    IF Len(h) < Len(n) THEN h
    ELSE IF SubSeq(h, 1, Len(n)) = n THEN Remove(SubSeq(h, Len(n) + 1, Len(h)), n)
    ELSE SubSeq(h, 1, 1) \o Remove(SubSeq(h, 2, Len(h)), n)

RECURSIVE Split(_, _)
\* s.split(sep) for a separator of one character
Split(s, sep) ==
    IF Find(s, sep) = 0 THEN <<s>>
    ELSE <<SubSeq(s, 1, Find(s, sep) - 1)>>
            \o Split(SubSeq(s, Find(s, sep) + 1, Len(s)), sep)

\* [p for p in parts if p]
NonEmpty(parts) == SelectSeq(parts, LAMBDA p : p # "")

\* s.split(): the words of s (the strings here have no whitespace but spaces)
Words(s) == NonEmpty(Split(s, " "))

\* The text before the first occurrence of the character c, all of s if none.
Before(s, c) == IF Find(s, c) = 0 THEN s ELSE SubSeq(s, 1, Find(s, c) - 1)

SchemeChars == LowerCase \o UpperCase \o "0123456789+-."

\* urlsplit: the place of the colon that ends the scheme, 0 without a scheme.
SchemeEnd(url) ==
    IF /\ Find(url, ":") > 1
       /\ In(SubSeq(url, 1, 1), LowerCase \o UpperCase)
       /\ \A k \in 1..(Find(url, ":") - 1) : In(SubSeq(url, k, k), SchemeChars)
    THEN Find(url, ":")
    ELSE 0

\* urlparse(url): scheme, netloc and path (no URL here has ";" parameters).
urlparse(url) ==
    LET rest == SubSeq(url, SchemeEnd(url) + 1, Len(url))
        authority == IF StartsWith(rest, "//")
                     THEN Before(Before(Before(SubSeq(rest, 3, Len(rest)), "/"), "?"), "#")
                     ELSE ""
        tail == IF StartsWith(rest, "//")
                THEN SubSeq(rest, 3 + Len(authority), Len(rest))
                ELSE rest
    IN [scheme |-> Lower(SubSeq(url, 1, SchemeEnd(url) - 1)),
        netloc |-> authority,
        path |-> Before(Before(tail, "#"), "?")]

----------------------------------------------------------------------------
(* serp_search.py: the relevance filter, the score and the selection          *)

\* The entries a response can list: a link (NoneV: the entry has none), a
\* title and a snippet (Absent: the entry has none).
Candidates ==
    { [link |-> "https://developers.zoom.us/docs/api/meetings#create",
       title |-> "Zoom Meetings API", snippet |-> ""],
      [link |-> "https://stackoverflow.com/questions/create/meeting/endpoint#top",
       title |-> "How to schedule calls", snippet |-> "REST endpoint"],
      [link |-> "https://medium.com/blog",
       title |-> "Guide", snippet |-> "Using the Zoom API"],
      [link |-> NoneV, title |-> "Zoom", snippet |-> ""],
      [link |-> "https://docs.github.com/rest",
       title |-> "REST API", snippet |-> ""],
      [link |-> "https://zoomerang.io/docs",
       title |-> "Video app", snippet |-> ""],
      [link |-> "https://dev.to/zoom",
       title |-> "Zoom tips", snippet |-> ""],
      [link |-> "https://developers.zoom.us/docs/api/meetings#create",
       title |-> "Zoom Meetings API", snippet |-> Absent] }

\* _is_relevant_to_service: the domain of method_link without api. and www.
method_domain_clean(d) ==
    Remove(Remove(Lower(urlparse(method_link(d)).netloc), "api."), "www.")

\* _is_relevant_to_service: the domain of the URL without the usual prefixes.
url_domain_clean(url) ==
    Remove(Remove(Remove(Remove(Remove(Lower(urlparse(url).netloc),
        "api."), "www."), "docs."), "developers."), "dev.")

\* The words of the service name longer than 3 characters.
name_parts(d) == SelectSeq(Words(Lower(d.name)), LAMBDA part : Len(part) > 3)

combined_text(title, snippet) == Lower(title) \o " " \o Lower(snippet)

\* Direct domain match
check_domain_match(url, d) ==
    method_domain_clean(d) # "" /\ In(method_domain_clean(d), url_domain_clean(url))

\* Service name in domain
check_name_in_domain(url, d) ==
    \E k \in DOMAIN name_parts(d) : In(name_parts(d)[k], url_domain_clean(url))

\* Service name appears in title/snippet
check_name_in_text(title, snippet, d) == In(Lower(d.name), combined_text(title, snippet))

\* A word of the service name appears in title/snippet
check_part_in_text(title, snippet, d) ==
    \E k \in DOMAIN name_parts(d) : In(name_parts(d)[k], combined_text(title, snippet))

official_doc_domains ==
    << "docs.", "developers.", "dev.", "api.", "developer.",
       "learn.microsoft.com", "github.com", "postman.com" >>

\* An official doc domain, whether or not the text mentions the service.
check_official_docs_host_only(url, title, snippet, d) ==
    \E k \in DOMAIN official_doc_domains :
       In(official_doc_domains[k], Lower(urlparse(url).netloc))

\* An official doc domain that mentions the service
check_official_docs(url, title, snippet, d) ==
    /\ \E k \in DOMAIN official_doc_domains :
          In(official_doc_domains[k], Lower(urlparse(url).netloc))
    /\ \/ check_name_in_text(title, snippet, d)
       \/ check_part_in_text(title, snippet, d)

\* _is_relevant_to_service looking at the domain of the URL only.
is_relevant_to_service_domain_only(url, title, snippet, d) ==
    \/ check_domain_match(url, d)
    \/ check_name_in_domain(url, d)

\* SerpAPIMultiSearch._is_relevant_to_service
is_relevant_to_service(url, title, snippet, d) ==
    \/ check_domain_match(url, d)
    \/ check_name_in_domain(url, d)
    \/ check_name_in_text(title, snippet, d)
    \/ check_part_in_text(title, snippet, d)
    \/ check_official_docs(url, title, snippet, d)

generic_patterns == << "/docs", "/documentation", "/api", "/reference" >>

url_keywords ==
    << "method", "endpoint", "operation", "post/", "get/", "put/", "delete/" >>

\* _score_url_relevance: what the bonuses add up to.
score_bonuses(url, d) ==
    LET url_lower == Lower(url)
        method_words == Words(Lower(d.method))
        path_parts == NonEmpty(Split(urlparse(url).path, "/"))
    IN (IF check_domain_match(url, d) THEN 100 ELSE 0)
       + 80 * Cardinality({k \in DOMAIN name_parts(d) :
                              In(name_parts(d)[k], url_domain_clean(url))})
       + (IF In("#", url) THEN 50 ELSE 0)
       + 20 * Cardinality({k \in DOMAIN method_words :
                              Len(method_words[k]) > 3 /\ In(method_words[k], url_lower)})
       + (IF Len(path_parts) >= 3 THEN 30
          ELSE IF Len(path_parts) >= 2 THEN 15 ELSE 0)
       + (IF \E k \in DOMAIN url_keywords : In(url_keywords[k], url_lower)
          THEN 25 ELSE 0)

\* The penalty taken when the path of the URL is one of generic_patterns.
generic_penalty_exact_path(url) ==
    IF \E k \in DOMAIN generic_patterns :
          Lower(urlparse(url).path) = generic_patterns[k]
    THEN 20 ELSE 0

\* _score_url_relevance: the penalty for generic documentation pages.
generic_penalty(url) ==
    IF \E k \in DOMAIN generic_patterns :
          In(generic_patterns[k], Lower(url)) /\ EndsWith(Lower(url), generic_patterns[k])
    THEN 20 ELSE 0

\* SerpAPIMultiSearch._score_url_relevance
score_url_relevance(url, d) == score_bonuses(url, d) - generic_penalty(url)

\* rs[:n]
Top(rs, n) == SubSeq(rs, 1, IF Len(rs) < n THEN Len(rs) ELSE n)

\* _is_relevant_to_service on every entry of Candidates with a link, computed
\* once for each descriptor.
Relevant ==
    [d \in Descriptors |->
       [r \in Candidates |->
          /\ Truthy(r.link)
          /\ is_relevant_to_service(r.link, get(r, "title"), get(r, "snippet"), d)]]

\* _score_url_relevance on the link of every entry of Candidates, computed once
\* for each descriptor.
Score ==
    [d \in Descriptors |->
       [r \in Candidates |->
          IF Truthy(r.link) THEN score_url_relevance(r.link, d) ELSE 0]]

\* _select_best_result: the results of the top 10 that have a link and pass
\* the filter.
relevant_results(rs, d) == SelectSeq(Top(rs, 10), LAMBDA r : Relevant[d][r])

\* _select_best_result taking the top 10 results as they come, whatever the
\* filter says of them.
best_result_unfiltered(rs, d) ==
    LET scored == Top(SelectSeq(Top(rs, 10), LAMBDA r : Truthy(r.link)), 5)
    IN IF scored = <<>> THEN NoneV
       ELSE scored[CHOOSE i \in DOMAIN scored :
               /\ \A j \in DOMAIN scored : Score[d][scored[j]] <= Score[d][scored[i]]
               /\ \A j \in 1..(i - 1) : Score[d][scored[j]] < Score[d][scored[i]]].link

\* _select_best_result without its two slices: every relevant result of the
\* list is scored.
best_result_whole_list(rs, d) ==
    LET scored == SelectSeq(rs, LAMBDA r : Relevant[d][r])
    IN IF scored = <<>> THEN NoneV
       ELSE scored[CHOOSE i \in DOMAIN scored :
               /\ \A j \in DOMAIN scored : Score[d][scored[j]] <= Score[d][scored[i]]
               /\ \A j \in 1..(i - 1) : Score[d][scored[j]] < Score[d][scored[i]]].link

\* _select_best_result with a sort that puts the last of the results with the
\* highest score first.
best_result_last_of_equal(rs, d) ==
    LET scored == Top(relevant_results(rs, d), 5)
    IN IF scored = <<>> THEN NoneV
       ELSE scored[CHOOSE i \in DOMAIN scored :
               /\ \A j \in DOMAIN scored : Score[d][scored[j]] <= Score[d][scored[i]]
               /\ \A j \in (i + 1)..Len(scored) :
                     Score[d][scored[j]] < Score[d][scored[i]]].link

\* SerpAPIMultiSearch._select_best_result: the first link with the highest
\* score among the top 5 of the relevant results (the sort is stable).
best_result(rs, d) ==
    LET scored == Top(relevant_results(rs, d), 5)
    IN IF scored = <<>> THEN NoneV
       ELSE scored[CHOOSE i \in DOMAIN scored :
               /\ \A j \in DOMAIN scored : Score[d][scored[j]] <= Score[d][scored[i]]
               /\ \A j \in 1..(i - 1) : Score[d][scored[j]] < Score[d][scored[i]]].link

\* _search_google_light from the parsed response on: organic_results to the
\* value returned.
search_google_light_select(organic_results, d) ==
    IF Truthy(best_result(organic_results, d))
    THEN best_result(organic_results, d) ELSE "error"

\* _search_google_ai_mode: the references that have a link, each as a result
\* with link, title and snippet.
formatted(references) ==
    LET linked == SelectSeq(references, LAMBDA ref : ref.link # NoneV)
    IN [i \in DOMAIN linked |->
          [link |-> linked[i].link, title |-> get(linked[i], "title"),
           snippet |-> get(linked[i], "snippet")]]

\* _search_google_ai_mode keeping only the references that have a snippet.
search_google_ai_mode_select_needs_snippet(references, d) ==
    IF references = <<>> THEN "error"
    ELSE LET formatted_results ==
                 formatted(SelectSeq(references, LAMBDA ref : ref.snippet # Absent))
         IN IF Truthy(best_result(formatted_results, d))
            THEN best_result(formatted_results, d) ELSE "error"

\* _search_google_ai_mode from the parsed response on: references to the
\* value returned.
search_google_ai_mode_select(references, d) ==
    IF references = <<>> THEN "error"
    ELSE LET formatted_results == formatted(references)
         IN IF Truthy(best_result(formatted_results, d))
            THEN best_result(formatted_results, d) ELSE "error"

----------------------------------------------------------------------------
(* State after construction: AsyncHTTPClient.__init__, MethodProcessor.__init__ *)

InitPipeline ==
    /\ session = "none"
    /\ max_concurrent \in 1..MaxCap
    /\ semaphore = max_concurrent
    /\ network \in {"up", "down"}
    /\ api_method \in Descriptors
    /\ pc = "idle"
    /\ ph = [u \in Units |-> "idle"]
    /\ ret = [u \in Units |-> NoneV]
    /\ oaIdx = 1
    /\ oaOp = "head"
    /\ head_status = 0
    /\ get_body = [u \in Callers |-> NoBody]
    /\ seen = [u \in Observed |-> NoBody]
    /\ openapi_link = NoneV
    /\ postman_link = NoneV
    /\ serp_invoked = FALSE
    /\ outcome = Pending
    /\ transportRaised = FALSE
    /\ reordered = FALSE
    /\ rejected = {}

\* No batch is run: the pipeline is driven for one descriptor.
NoBatch ==
    /\ api_methods = <<>>
    /\ main_pc = "init"
    /\ task = <<>>
    /\ gathered = <<>>
    /\ task_outcome = <<>>
    /\ log = <<>>
    /\ pbar = 0
    /\ completion = <<>>
    /\ results = <<>>

(* output.py: the files before save_results *)

\* The file has not been written.
NoFile == <<"<no file>">>

NoOutput == csv_rows = NoFile /\ json_items = NoFile

(* loader.py: before load_from_file *)

NoTracker == converted = 0 /\ last_result = NoResult /\ tracker_format = <<>>

NoHost == host = "" /\ host_routine = "none" /\ host_clean = ""

NoLoader == suffix = ".csv" /\ raw_rows = <<>> /\ load_outcome = "none" /\ loaded = <<>>

----------------------------------------------------------------------------
\* No slot is taken apart: its response is one of Bodies.
NoSelect ==
    /\ response_results = <<>>
    /\ select_method = api_method
    /\ engine = "none"
    /\ selected = NoneV

\* No score has been computed.
NoScore == [known |-> FALSE, value |-> 0]

\* No candidate is put to the filter or the scorer on its own.
NoCandidate ==
    /\ candidate = [link |-> NoneV, title |-> "", snippet |-> ""]
    /\ relevance = "unknown"
    /\ prior_relevance = "unknown"
    /\ url_score = NoScore
    /\ tokens_added = 0

Init == InitPipeline /\ NoBatch /\ NoSelect /\ NoCandidate /\ NoOutput /\ NoLoader /\ NoHost /\ NoTracker

----------------------------------------------------------------------------
(* http_client.py *)

\* Requests in flight: coroutines inside both "async with" blocks of head/get.
InFlight == {u \in Callers : ph[u] = "flight"}

\* AsyncHTTPClient.__aenter__
aenter ==
    /\ UNCHANGED <<batchVars, selectVars, candidateVars, outputVars, loaderVars, hostVars, trackerVars>>
    /\ session = "none"
    /\ session' = "open"
    /\ UNCHANGED <<max_concurrent, semaphore, api_method, pc, ph, ret, oaIdx, oaOp,
                   head_status, get_body, network, seen, openapi_link, postman_link,
                   serp_invoked, outcome, transportRaised, reordered, rejected>>

\* AsyncHTTPClient.__aexit__
aexit ==
    /\ UNCHANGED <<batchVars, selectVars, candidateVars, outputVars, loaderVars, hostVars, trackerVars>>
    /\ session = "open"
    /\ session' = "closed"
    /\ UNCHANGED <<max_concurrent, semaphore, api_method, pc, ph, ret, oaIdx, oaOp,
                   head_status, get_body, network, seen, openapi_link, postman_link,
                   serp_invoked, outcome, transportRaised, reordered, rejected>>

\* The request of caller u can be sent: only find_openapi builds its URL from
\* the descriptor; the collection-search and search-API URLs are fixed.
UrlOk(u) == u = "openapi" => Sendable(api_method)

\* The statuses a HEAD request can come back with.
HeadAnswers == IF network = "down" THEN {-1} ELSE StatusCodes

\* The bodies the GET request of caller u can come back with: a manifest
\* path answers with some text, the collection search with markup, the search
\* API with JSON; each may also fail, answer empty or answer with other text.
GetAnswers(u) ==
    IF network = "down" THEN {NoneV}
    ELSE IF u = "openapi" THEN {NoneV, "", "text"}
    ELSE IF u \in Strategies THEN {NoneV, "", "text", "html-collection"}
    ELSE {NoneV, "", "text", "json-error", "json-empty", "json-irrelevant",
          "json-relevant"}

\* asyncio.gather in search_all: the coroutine of slot u finishes while one
\* passed to gather ahead of it is still running.
CompletesAhead(u) ==
    /\ u \in Slots
    /\ \E i, j \in 1..Len(SlotOrder) :
          i < j /\ SlotOrder[j] = u /\ ph[SlotOrder[i]] # "done"

\* The caller's code after its transport call came back with a status (HEAD)
\* or a body (GET); a call that raised or failed comes back as -1 / None, which
\* every caller's except clause treats like the error sentinel.  Sets the
\* coroutine's next state.
AfterTransport(u, status, body, came) ==
    IF u = "openapi"
    THEN LET verdict == IF oaOp = "head" THEN check_path_head(status)
                        ELSE check_path_get(body)
             nxt == find_openapi_step(api_method, oaIdx, verdict)
         IN /\ ph' = [ph EXCEPT ![u] = nxt.ph]
            /\ ret' = [ret EXCEPT ![u] = nxt.ret]
            /\ oaIdx' = nxt.idx
            /\ oaOp' = nxt.op
            /\ rejected' = IF verdict = "false" THEN rejected \cup {oaIdx} ELSE rejected
            /\ seen' = [seen EXCEPT ![u] = IF oaOp = "get" THEN came ELSE NoBody]
            /\ UNCHANGED reordered
    ELSE /\ ph' = [ph EXCEPT ![u] = "done"]
         /\ ret' = [ret EXCEPT ![u] =
                       IF u \in Strategies THEN search_by(u, body)
                       ELSE slot_result(u, body)]
         /\ seen' = [seen EXCEPT ![u] = came]
         /\ reordered' = (reordered \/ CompletesAhead(u))
         /\ UNCHANGED <<oaIdx, oaOp, rejected>>

\* AsyncHTTPClient.head / get called before __aenter__: RuntimeError, which
\* the caller's except clause turns into its failure value.
call_uninitialized(u) ==
    /\ UNCHANGED <<batchVars, selectVars, candidateVars, outputVars, loaderVars, hostVars, trackerVars>>
    /\ ph[u] = "call"
    /\ session = "none"
    /\ transportRaised' = TRUE
    /\ AfterTransport(u, -1, NoneV, "RuntimeError")
    /\ UNCHANGED <<session, max_concurrent, semaphore, api_method, pc, head_status,
                   get_body, network, openapi_link, postman_link, serp_invoked,
                   outcome>>

\* head / get without the except clauses: the failure of the request is raised
\* to the caller.
call_fails_raises(u) ==
    /\ UNCHANGED <<batchVars, selectVars, candidateVars, outputVars, loaderVars, hostVars, trackerVars>>
    /\ ph[u] = "call"
    /\ session # "none"
    /\ semaphore > 0
    /\ session = "closed" \/ ~UrlOk(u)
    /\ transportRaised' = TRUE
    /\ AfterTransport(u, -1, NoneV, "RuntimeError")
    /\ UNCHANGED <<session, max_concurrent, semaphore, api_method, pc, head_status,
                   get_body, network, openapi_link, postman_link, serp_invoked,
                   outcome>>

\* AsyncHTTPClient.head / get on a closed session or an unsendable URL: the
\* permit is taken, the request fails at once inside the try, the permit is
\* given back and the error sentinel (-1 / None) is returned.
call_fails(u) ==
    /\ UNCHANGED <<batchVars, selectVars, candidateVars, outputVars, loaderVars, hostVars, trackerVars>>
    /\ ph[u] = "call"
    /\ session # "none"
    /\ semaphore > 0
    /\ session = "closed" \/ ~UrlOk(u)
    /\ AfterTransport(u, -1, NoneV, NoneV)
    /\ UNCHANGED <<session, max_concurrent, semaphore, api_method, pc, head_status,
                   get_body, network, openapi_link, postman_link, serp_invoked,
                   outcome, transportRaised>>

\* head / get sending the request without "async with self.semaphore".
acquire_unbounded(u) ==
    /\ UNCHANGED <<batchVars, selectVars, candidateVars, outputVars, loaderVars, hostVars, trackerVars>>
    /\ ph[u] = "call"
    /\ session = "open"
    /\ UrlOk(u)
    /\ semaphore' = semaphore - 1
    /\ ph' = [ph EXCEPT ![u] = "flight"]
    /\ IF u = "openapi" /\ oaOp = "head"
       THEN /\ \E status \in HeadAnswers : head_status' = status
            /\ UNCHANGED get_body
       ELSE /\ \E body \in GetAnswers(u) : get_body' = [get_body EXCEPT ![u] = body]
            /\ UNCHANGED head_status
    /\ UNCHANGED <<session, max_concurrent, api_method, pc, ret, oaIdx, oaOp, network, seen,
                   openapi_link, postman_link, serp_invoked, outcome, transportRaised, reordered, rejected>>

\* AsyncHTTPClient.head / get: "async with self.semaphore" entered and the
\* request sent; what it will come back with is the network's choice.
acquire(u) ==
    /\ UNCHANGED <<batchVars, selectVars, candidateVars, outputVars, loaderVars, hostVars, trackerVars>>
    /\ ph[u] = "call"
    /\ session = "open"
    /\ UrlOk(u)
    /\ semaphore > 0
    /\ semaphore' = semaphore - 1
    /\ ph' = [ph EXCEPT ![u] = "flight"]
    /\ IF u = "openapi" /\ oaOp = "head"
       THEN /\ \E status \in HeadAnswers : head_status' = status
            /\ UNCHANGED get_body
       ELSE /\ \E body \in GetAnswers(u) : get_body' = [get_body EXCEPT ![u] = body]
            /\ UNCHANGED head_status
    /\ UNCHANGED <<session, max_concurrent, api_method, pc, ret, oaIdx, oaOp, network, seen,
                   openapi_link, postman_link, serp_invoked, outcome, transportRaised, reordered, rejected>>

\* head leaving "async with self.semaphore" through an except clause without
\* giving the permit back.
head_returns_keeps_permit_on_error ==
    /\ UNCHANGED <<batchVars, selectVars, candidateVars, outputVars, loaderVars, hostVars, trackerVars>>
    /\ ph["openapi"] = "flight"
    /\ oaOp = "head"
    /\ semaphore' = IF head_status = -1 THEN semaphore ELSE semaphore + 1
    /\ head_status' = 0
    /\ AfterTransport("openapi", head_status, NoneV, NoneV)
    /\ UNCHANGED <<session, max_concurrent, api_method, pc, get_body, network,
                   openapi_link, postman_link, serp_invoked, outcome, transportRaised>>

\* AsyncHTTPClient.head comes back: the status, or -1 on timeout / client error.
head_returns ==
    /\ UNCHANGED <<batchVars, selectVars, candidateVars, outputVars, loaderVars, hostVars, trackerVars>>
    /\ ph["openapi"] = "flight"
    /\ oaOp = "head"
    /\ semaphore' = semaphore + 1
    /\ head_status' = 0
    /\ AfterTransport("openapi", head_status, NoneV, NoneV)
    /\ UNCHANGED <<session, max_concurrent, api_method, pc, get_body, network,
                   openapi_link, postman_link, serp_invoked, outcome, transportRaised>>

\* get leaving "async with self.semaphore" without giving the permit back.
get_returns_keeps_permit(u) ==
    /\ UNCHANGED <<batchVars, selectVars, candidateVars, outputVars, loaderVars, hostVars, trackerVars>>
    /\ ph[u] = "flight"
    /\ u = "openapi" => oaOp = "get"
    /\ semaphore' = semaphore
    /\ get_body' = [get_body EXCEPT ![u] = NoBody]
    /\ AfterTransport(u, -1, get_body[u], get_body[u])
    /\ UNCHANGED <<session, max_concurrent, api_method, pc, head_status, network,
                   openapi_link, postman_link, serp_invoked, outcome, transportRaised>>

\* A caller of get that fetches again when get came back with None.
get_returns_retries(u) ==
    /\ UNCHANGED <<batchVars, selectVars, candidateVars, outputVars, loaderVars, hostVars, trackerVars>>
    /\ ph[u] = "flight"
    /\ u = "openapi" => oaOp = "get"
    /\ semaphore' = semaphore + 1
    /\ get_body' = [get_body EXCEPT ![u] = NoBody]
    /\ IF get_body[u] = NoneV /\ u # "openapi"
       THEN /\ ph' = [ph EXCEPT ![u] = "call"]
            /\ seen' = [seen EXCEPT ![u] = NoneV]
            /\ UNCHANGED <<ret, oaIdx, oaOp, reordered, rejected>>
       ELSE AfterTransport(u, -1, get_body[u], get_body[u])
    /\ UNCHANGED <<session, max_concurrent, api_method, pc, head_status, network,
                   openapi_link, postman_link, serp_invoked, outcome, transportRaised>>

\* AsyncHTTPClient.get comes back: the text on status 200, else None.
get_returns(u) ==
    /\ UNCHANGED <<batchVars, selectVars, candidateVars, outputVars, loaderVars, hostVars, trackerVars>>
    /\ ph[u] = "flight"
    /\ u = "openapi" => oaOp = "get"
    /\ semaphore' = semaphore + 1
    /\ get_body' = [get_body EXCEPT ![u] = NoBody]
    /\ AfterTransport(u, -1, get_body[u], get_body[u])
    /\ UNCHANGED <<session, max_concurrent, api_method, pc, head_status, network,
                   openapi_link, postman_link, serp_invoked, outcome, transportRaised>>

----------------------------------------------------------------------------
(* The pipeline: processor.py, with the gathers of postman_search.py and     *)
(* serp_search.py                                                            *)

\* process_method up to its first await: the tier-1 gather starts find_openapi
\* and find_postman_collection, which starts its two strategies.  A component
\* is the one of this repository (real) or a replacement handed to
\* MethodProcessor.__init__ that raises.
process_method_start ==
    /\ UNCHANGED <<batchVars, selectVars, candidateVars, outputVars, loaderVars, hostVars, trackerVars>>
    /\ pc = "idle"
    /\ pc' = "tier1"
    /\ \E oaReal \in BOOLEAN, pmReal \in BOOLEAN :
          /\ ph' = [u \in Units |->
                      IF u = "openapi" THEN (IF oaReal THEN "call" ELSE "done")
                      ELSE IF u = "postman" THEN (IF pmReal THEN "wait" ELSE "done")
                      ELSE IF u = "by_name" THEN (IF pmReal THEN "call" ELSE "idle")
                      ELSE IF u = "by_domain"
                      THEN (IF ~pmReal THEN "idle"
                            ELSE IF api_method.netloc # "" THEN "call" ELSE "done")
                      ELSE ph[u]]
          /\ ret' = [ret EXCEPT !["openapi"] = IF oaReal THEN NoneV ELSE ExcV,
                                !["postman"] = IF pmReal THEN NoneV ELSE ExcV]
    /\ UNCHANGED <<session, max_concurrent, semaphore, api_method, oaIdx, oaOp,
                   head_status, get_body, network, seen, openapi_link, postman_link,
                   serp_invoked, outcome, transportRaised, reordered, rejected>>

\* find_postman_collection returning on the first strategy to complete with a
\* link (asyncio.as_completed in place of gather), the other still running.
find_postman_collection_first_completed ==
    /\ UNCHANGED <<batchVars, selectVars, candidateVars, outputVars, loaderVars, hostVars, trackerVars>>
    /\ ph["postman"] = "wait"
    /\ \E u \in Strategies :
          /\ ph[u] = "done"
          /\ Truthy(ret[u]) \/ \A v \in Strategies : ph[v] = "done"
          /\ ret' = [ret EXCEPT !["postman"] = ret[u]]
    /\ ph' = [ph EXCEPT !["postman"] = "done"]
    /\ UNCHANGED <<session, max_concurrent, semaphore, api_method, pc, oaIdx, oaOp,
                   head_status, get_body, network, seen, openapi_link, postman_link,
                   serp_invoked, outcome, transportRaised, reordered, rejected>>

\* find_postman_collection after its gather: both strategies have returned.
find_postman_collection ==
    /\ UNCHANGED <<batchVars, selectVars, candidateVars, outputVars, loaderVars, hostVars, trackerVars>>
    /\ ph["postman"] = "wait"
    /\ \A u \in Strategies : ph[u] = "done"
    /\ ph' = [ph EXCEPT !["postman"] = "done"]
    /\ ret' = [ret EXCEPT !["postman"] =
                  find_postman_collection_result(
                      gather_return_exceptions(<<ret["by_name"], ret["by_domain"]>>))]
    /\ UNCHANGED <<session, max_concurrent, semaphore, api_method, pc, oaIdx, oaOp,
                   head_status, get_body, network, seen, openapi_link, postman_link,
                   serp_invoked, outcome, transportRaised, reordered, rejected>>

\* process_method after the tier-1 gather with a link found: the record is
\* returned and search_all is not called.
process_method_found ==
    /\ UNCHANGED <<batchVars, selectVars, candidateVars, outputVars, loaderVars, hostVars, trackerVars>>
    /\ pc = "tier1"
    /\ \A u \in Tier1Units : ph[u] = "done"
    /\ LET links == tier1_links(
                        gather_return_exceptions(<<ret["openapi"], ret["postman"]>>))
           oa == links[1]
           pm == links[2]
       IN /\ tier1_found(oa, pm)
          /\ openapi_link' = oa
          /\ postman_link' = pm
          /\ outcome' = process_method_outer(api_method,
                            Returned(result_tier1(api_method, oa, pm)))
    /\ pc' = "done"
    /\ UNCHANGED <<session, max_concurrent, semaphore, api_method, ph, ret, oaIdx,
                   oaOp, head_status, get_body, network, seen, serp_invoked,
                   transportRaised, reordered, rejected>>

\* The coroutines once the pipeline is past tier 1: the tier-1 tasks are
\* finished and their results, read into the two locals, are read by nothing
\* again, so they, what the strategies saw and the paths find_openapi went
\* through are kept out of the state from here on.
PastTier1(started) ==
    [u \in Units |-> IF u \in Slots THEN started ELSE "idle"]

\* process_method calling search_all as soon as find_postman_collection has
\* returned without a link, find_openapi still running.
process_method_search_unjoined ==
    /\ UNCHANGED <<batchVars, selectVars, candidateVars, outputVars, loaderVars, hostVars, trackerVars>>
    /\ pc = "tier1"
    /\ ph["postman"] = "done"
    /\ LET links == tier1_links(
                        gather_return_exceptions(<<ret["openapi"], ret["postman"]>>))
           oa == links[1]
           pm == links[2]
       IN /\ ~tier1_found(oa, pm)
          /\ openapi_link' = oa
          /\ postman_link' = pm
    /\ serp_invoked' = TRUE
    /\ rejected' = {}
    /\ pc' = "serp"
    /\ ph' = PastTier1("call")
    /\ ret' = [u \in Units |-> NoneV]
    /\ seen' = [u \in Observed |-> NoBody]
    /\ UNCHANGED <<session, max_concurrent, semaphore, api_method, oaIdx, oaOp,
                   head_status, get_body, network, outcome, transportRaised, reordered>>

\* process_method after the tier-1 gather with no link: search_all is called
\* and starts its four slots.
process_method_search ==
    /\ UNCHANGED <<batchVars, selectVars, candidateVars, outputVars, loaderVars, hostVars, trackerVars>>
    /\ pc = "tier1"
    /\ \A u \in Tier1Units : ph[u] = "done"
    /\ LET links == tier1_links(
                        gather_return_exceptions(<<ret["openapi"], ret["postman"]>>))
           oa == links[1]
           pm == links[2]
       IN /\ ~tier1_found(oa, pm)
          /\ openapi_link' = oa
          /\ postman_link' = pm
    /\ serp_invoked' = TRUE
    /\ rejected' = {}
    /\ pc' = "serp"
    /\ ph' = PastTier1("call")
    /\ ret' = [u \in Units |-> NoneV]
    /\ seen' = [u \in Observed |-> NoBody]
    /\ UNCHANGED <<session, max_concurrent, semaphore, api_method, oaIdx, oaOp,
                   head_status, get_body, network, outcome, transportRaised, reordered>>

\* process_method after the tier-1 gather with no link, with a search
\* component that raises: the handler around search_all returns the record.
process_method_search_raises ==
    /\ UNCHANGED <<batchVars, selectVars, candidateVars, outputVars, loaderVars, hostVars, trackerVars>>
    /\ pc = "tier1"
    /\ \A u \in Tier1Units : ph[u] = "done"
    /\ LET links == tier1_links(
                        gather_return_exceptions(<<ret["openapi"], ret["postman"]>>))
           oa == links[1]
           pm == links[2]
       IN /\ ~tier1_found(oa, pm)
          /\ openapi_link' = oa
          /\ postman_link' = pm
    /\ serp_invoked' = TRUE
    /\ outcome' = process_method_outer(api_method,
                      process_method_serp(api_method,
                          [kind |-> "raise", value |-> [s \in Slots |-> NoneV]]))
    /\ rejected' = {}
    /\ pc' = "done"
    /\ ph' = PastTier1("idle")
    /\ ret' = [u \in Units |-> NoneV]
    /\ seen' = [u \in Observed |-> NoBody]
    /\ UNCHANGED <<session, max_concurrent, semaphore, api_method, oaIdx, oaOp,
                   head_status, get_body, network, transportRaised, reordered>>

\* search_all after its gather, and process_method after search_all: the four
\* slots have returned, the SearchResults are built and the record returned.
search_all ==
    /\ UNCHANGED <<batchVars, selectVars, candidateVars, outputVars, loaderVars, hostVars, trackerVars>>
    /\ pc = "serp"
    /\ \A s \in Slots : ph[s] = "done"
    /\ outcome' = process_method_outer(api_method,
                      process_method_serp(api_method,
                          [kind |-> "return",
                           value |-> search_all_results(
                               gather_return_exceptions([s \in Slots |-> ret[s]]))]))
    /\ pc' = "done"
    /\ UNCHANGED <<session, max_concurrent, semaphore, api_method, ph, ret, oaIdx,
                   oaOp, head_status, get_body, network, seen, openapi_link, postman_link,
                   serp_invoked, transportRaised, reordered, rejected>>

Next ==
    \/ aenter
    \/ aexit
    \/ process_method_start
    \/ \E u \in Callers : call_uninitialized(u)
    \/ \E u \in Callers : call_fails(u)
    \/ \E u \in Callers : acquire(u)
    \/ head_returns
    \/ \E u \in Callers : get_returns(u)
    \/ find_postman_collection
    \/ process_method_found
    \/ process_method_search
    \/ process_method_search_raises
    \/ search_all

Spec == Init /\ [][Next]_vars

\* The scheduling of the event loop: a coroutine that can take its next step
\* takes it, and a request that was sent comes back (with its response or by
\* the timeout of 10 seconds).  Opening and closing the client is left to the
\* caller.
Fairness ==
    /\ WF_vars(process_method_start)
    /\ \A u \in Callers : WF_vars(call_uninitialized(u))
    /\ \A u \in Callers : WF_vars(call_fails(u))
    /\ \A u \in Callers : WF_vars(acquire(u))
    /\ WF_vars(head_returns)
    /\ \A u \in Callers : WF_vars(get_returns(u))
    /\ WF_vars(find_postman_collection)
    /\ WF_vars(process_method_search \/ process_method_search_raises)
    /\ WF_vars(search_all)

\* The run in which no request is answered: every request sent times out, so
\* the method goes through both tiers and all its coroutines contend for the
\* permits.
InitLive == Init /\ network = "down"

NextLive ==
    \/ aenter
    \/ aexit
    \/ process_method_start
    \/ \E u \in Callers : call_uninitialized(u)
    \/ \E u \in Callers : call_fails(u)
    \/ \E u \in Callers : acquire(u)
    \/ head_returns
    \/ \E u \in Callers : get_returns(u)
    \/ find_postman_collection
    \/ process_method_search
    \/ process_method_search_raises
    \/ search_all

SpecLive == InitLive /\ [][NextLive]_vars /\ Fairness

\* The run of one method on a client of one permit with the network up,
\* under the scheduling of the event loop.
InitOnePass ==
    /\ Init
    /\ network = "up"
    /\ max_concurrent = 1
    /\ Sendable(api_method)

\* With the network up the tier-1 gather can come back with a link: the step
\* that builds the record from it is taken like every other.
FairnessOnePass == Fairness /\ WF_vars(process_method_found)

SpecOnePass == InitOnePass /\ [][Next]_vars /\ FairnessOnePass

----------------------------------------------------------------------------
(* Properties of the pipeline and the transport, stated on Spec              *)

\* The record process_method returned.
record == outcome.rec

\* A value a tier-1 component or a slot returned that is a link.
IsLink(v) == Truthy(v) /\ ~IsException(v) /\ v # "error"

\* The field of the record a slot's outcome goes to.
SlotField(s) == record[s]

\* C1: once find_openapi or find_postman_collection has returned a link,
\* search_all is never invoked for the method and no slot issues a request to
\* the search API: no step from such a state starts the search or a slot.
C1_NoSearchAfterTier1Link ==
    [][(IsLink(ret["openapi"]) \/ IsLink(ret["postman"]))
        => /\ ~serp_invoked'
           /\ \A s \in Slots : ph'[s] = "idle" /\ get_body'[s] = NoBody]_vars

\* The method is done on a link of the collection search alone, no search made.
C1_Witness ==
    /\ pc = "done"
    /\ IsLink(ret["postman"])
    /\ ~IsLink(ret["openapi"])
    /\ ~serp_invoked

\* C2: when exactly one tier-1 component returned a link, the record holds the
\* link in that component's field, "" in the other tier-1 field (also when the
\* other component raised) and "" in the four search fields.
C2_ExactlyOneTier1Link ==
    pc = "done" =>
       /\ (IsLink(ret["openapi"]) /\ ~IsLink(ret["postman"]))
             => /\ record.openapi_link = ret["openapi"]
                /\ record.postman_link = ""
                /\ \A s \in Slots : SlotField(s) = ""
       /\ (IsLink(ret["postman"]) /\ ~IsLink(ret["openapi"]))
             => /\ record.postman_link = ret["postman"]
                /\ record.openapi_link = ""
                /\ \A s \in Slots : SlotField(s) = ""

\* The method is done on a link of find_openapi while the collection search
\* raised.
C2_Witness ==
    /\ pc = "done"
    /\ IsLink(ret["openapi"])
    /\ IsException(ret["postman"])
    /\ record.openapi_link = ret["openapi"]

\* C3 as claimed: when every transport call fails, all six discovery fields
\* of the record are "error".
C3_AllSixError ==
    (pc = "done" /\ network = "down") => \A f \in LinkFields : record[f] = "error"

\* C3: when every transport call fails, the record holds "" in openapi_link
\* and postman_link and "error" in the four search fields.
C3_Tier1EmptySearchError ==
    (pc = "done" /\ network = "down")
       => /\ record.openapi_link = ""
          /\ record.postman_link = ""
          /\ \A s \in Slots : SlotField(s) = "error"

\* Every request was sent on the open session and failed, and the method is
\* done after all four slots saw their request fail.
C3_Witness ==
    /\ pc = "done"
    /\ network = "down"
    /\ ~transportRaised
    /\ \A s \in Slots : seen[s] = NoneV

\* The responses of a query that completed without fault and gave no candidate.
NoCandidateBodies == {"json-empty", "json-irrelevant"}

\* C4 as claimed: with no tier-1 link, a slot whose response has an empty
\* candidate list, or no relevant candidate, gets "" in its field; a slot that
\* found a link gets the link.
C4_NoCandidateEmpty ==
    (pc = "done" /\ serp_invoked) =>
        \A s \in Slots :
           /\ seen[s] \in NoCandidateBodies => SlotField(s) = ""
           /\ seen[s] = "json-relevant" => SlotField(s) = BestLink(s)

\* C4: with no tier-1 link, a slot whose response has an empty candidate list,
\* or no relevant candidate, gets "error" in its field, as a failed slot does;
\* a slot that found a link gets the link.
C4_NoCandidateError ==
    (pc = "done" /\ serp_invoked) =>
        \A s \in Slots :
           /\ seen[s] \in NoCandidateBodies => SlotField(s) = "error"
           /\ seen[s] = "json-relevant" => SlotField(s) = BestLink(s)

\* One slot saw no results, one saw only irrelevant ones, one found a link.
C4_Witness ==
    /\ pc = "done"
    /\ seen["search_method_name"] = "json-empty"
    /\ seen["ai_method_name"] = "json-irrelevant"
    /\ seen["search_method_link"] = "json-relevant"
    /\ SlotField("search_method_link") = BestLink("search_method_link")

\* The responses that make a slot fail: no body, an empty body, a body that is
\* not JSON, JSON with a top-level error field.
FailedBodies == {NoneV, "", "text", "json-error"}

\* C5: a slot whose response is none or empty, does not parse, or has a
\* top-level error field returns "error" and gets "error" in its field, no
\* link of that response being selected; the fields of the other slots are
\* what their own responses give.
C5_FailedSlotError ==
    \A s \in Slots :
       seen[s] \in FailedBodies =>
          /\ ret[s] = "error"
          /\ pc = "done" =>
                /\ SlotField(s) = "error"
                /\ \A t \in Slots \ {s} :
                      seen[t] = "json-relevant" => SlotField(t) = BestLink(t)

\* Three slots failed in the three ways, next to one that found its link.
C5_Witness ==
    /\ pc = "done"
    /\ seen["search_method_name"] = "json-error"
    /\ seen["search_method_link"] = "text"
    /\ seen["ai_method_name"] = ""
    /\ seen["ai_method_link"] = "json-relevant"
    /\ SlotField("ai_method_link") = BestLink("ai_method_link")

\* A record of nine strings carrying the descriptor d.
IsProcessingResult(r, d) ==
    /\ r.name = d.name
    /\ r.method = d.method
    /\ r.method_link = method_link(d)
    /\ \A f \in LinkFields : r[f] \notin {NoneV, ExcV}

\* C8: process_method never raises and, once done, has returned a
\* ProcessingResult for the descriptor, whatever the components and the
\* transport did, raising included.
C8_AlwaysReturnsResult ==
    /\ outcome.kind # "raise"
    /\ pc = "done" => outcome.kind = "return" /\ IsProcessingResult(record, api_method)
    /\ pc # "done" => outcome = Pending

\* The method is done after find_openapi raised and a transport call raised.
C8_Witness ==
    /\ pc = "done"
    /\ IsException(ret["openapi"])
    /\ transportRaised
    /\ outcome.kind = "return"

\* C9 as claimed: no call of head or get raises, in any state of the client.
C9_NeverRaises == ~transportRaised

\* C9: a call of head or get raises only on a client that was never opened;
\* on an open or a closed client it returns.
C9_RaisesOnlyUnopened ==
    [][(transportRaised' /\ ~transportRaised) => session = "none"]_vars

\* Calls were made before the client was opened, and on the closed client,
\* where the failing call came back as None.
C9_Witness ==
    /\ transportRaised
    /\ session = "closed"
    /\ \E s \in Slots : seen[s] = "RuntimeError"
    /\ \E s \in Slots : seen[s] = NoneV

\* C10: the requests in flight never exceed max_concurrent; the semaphore
\* holds the permits that are left.
C10_InFlightBounded ==
    /\ Cardinality(InFlight) <= max_concurrent
    /\ semaphore = max_concurrent - Cardinality(InFlight)

\* The cap is reached while another coroutine waits to send its request.
C10_Witness ==
    /\ Cardinality(InFlight) = max_concurrent
    /\ \E u \in Callers : ph[u] = "call"
    /\ session = "open"

\* C11: the cap causes neither deadlock nor starvation, also when it is below
\* the fan-out of the method: given that every request sent comes back, every
\* coroutine waiting for a permit gets to send its request (or has its call
\* fail), the method completes, and a coroutine holds one permit at most, the
\* permits taken being those of the requests in flight.
C11_NoDeadlockNoStarvation ==
    /\ \A u \in Callers : (ph[u] = "call") ~> (ph[u] # "call")
    /\ (pc # "idle") ~> (pc = "done")
    /\ [](semaphore >= 0 /\ max_concurrent - semaphore = Cardinality(InFlight))

\* With a cap of one, a slot waits for the permit another slot's request holds.
C11_Witness ==
    /\ max_concurrent = 1
    /\ semaphore = 0
    /\ pc = "serp"
    /\ \E s \in Slots : ph[s] = "flight"
    /\ Cardinality({s \in Slots : ph[s] = "call"}) = 3

\* C12: find_postman_collection returns only after both strategies have
\* completed, and returns the link of the search by name if that found one,
\* else the link of the search by domain if that found one, else None, in
\* whichever order the two completed.
C12_FirstFoundInDeclaredOrder ==
    (pc \in {"tier1", "done"} /\ ph["postman"] = "done" /\ ph["by_name"] # "idle")
       => /\ \A u \in Strategies : ph[u] = "done"
          /\ ret["postman"] =
                IF IsLink(ret["by_name"]) THEN ret["by_name"]
                ELSE IF IsLink(ret["by_domain"]) THEN ret["by_domain"]
                ELSE NoneV

\* Both strategies found a link, each its own, and the one by name is returned.
C12_Witness ==
    /\ pc = "tier1"
    /\ ph["postman"] = "done"
    /\ IsLink(ret["by_name"])
    /\ IsLink(ret["by_domain"])
    /\ ret["by_name"] # ret["by_domain"]
    /\ ret["postman"] = ret["by_name"]

\* The link of the collection the search of strategy u answers with.
PostmanUrl(u) == "https://www.postman.com" \o CollectionPath(u)

\* The record as a function of the descriptor and of what the transport
\* answered: the link find_openapi confirmed, the markup each strategy saw and
\* the response each slot saw.
ComposedRecord ==
    IF ~serp_invoked
    THEN [name |-> api_method.name, method |-> api_method.method,
          method_link |-> method_link(api_method),
          openapi_link |-> IF IsLink(ret["openapi"]) THEN ret["openapi"] ELSE "",
          postman_link |->
              IF seen["by_name"] = "html-collection" THEN PostmanUrl("by_name")
              ELSE IF seen["by_domain"] = "html-collection" THEN PostmanUrl("by_domain")
              ELSE "",
          search_method_name |-> "", search_method_link |-> "",
          ai_method_name |-> "", ai_method_link |-> ""]
    ELSE [name |-> api_method.name, method |-> api_method.method,
          method_link |-> method_link(api_method),
          openapi_link |-> "", postman_link |-> "",
          search_method_name |->
              IF seen["search_method_name"] = "json-relevant"
              THEN BestLink("search_method_name") ELSE "error",
          search_method_link |->
              IF seen["search_method_link"] = "json-relevant"
              THEN BestLink("search_method_link") ELSE "error",
          ai_method_name |->
              IF seen["ai_method_name"] = "json-relevant"
              THEN BestLink("ai_method_name") ELSE "error",
          ai_method_link |->
              IF seen["ai_method_link"] = "json-relevant"
              THEN BestLink("ai_method_link") ELSE "error"]

\* C13: the record of a method is determined by the descriptor and the
\* responses of the transport: in every interleaving and completion order of
\* the tier-1 components, the strategies and the slots, the record returned is
\* the same function of them, so two runs that see the same responses return
\* the same record.
C13_RecordDeterminedByResponses ==
    pc = "done" => record = ComposedRecord

\* Both strategies saw a collection and find_openapi found nothing: the record
\* has the link of the search by name.
C13_Witness ==
    /\ pc = "done"
    /\ ~serp_invoked
    /\ seen["by_name"] = "html-collection"
    /\ seen["by_domain"] = "html-collection"
    /\ ~IsLink(ret["openapi"])
    /\ record.postman_link = PostmanUrl("by_name")

\* find_openapi returns in this step, after a transport call of its own.
OpenapiReturnsNow ==
    ph["openapi"] \in {"call", "flight"} /\ ph'["openapi"] = "done"

\* The values with which a component tells a failure from finding nothing.
FailedValues == {"error", ExcV}

\* C15 as claimed: find_openapi returns failed when the example URL has no
\* scheme and host, and in no other case.
C15_FailedOnUnparsable ==
    [][OpenapiReturnsNow =>
          (ret'["openapi"] \in FailedValues <=> ~Sendable(api_method))]_vars

\* C15: find_openapi never returns failed: for an example URL without scheme
\* and host it returns None, the value it returns when no path is confirmed,
\* and for any other URL it returns a link or None whatever the transport does.
C15_NeverFailed ==
    [][OpenapiReturnsNow =>
          /\ ret'["openapi"] \notin FailedValues
          /\ ~Sendable(api_method) => ret'["openapi"] = NoneV]_vars

\* find_openapi has returned None for the example URL "not a url", on an open
\* client.
C15_Witness ==
    /\ ~Sendable(api_method)
    /\ pc = "tier1"
    /\ ph["openapi"] = "done"
    /\ ret["openapi"] = NoneV
    /\ session = "open"
    /\ ~transportRaised

\* find_postman_collection has returned after running its two strategies.
CollectionSearchDone ==
    pc \in {"tier1", "done"} /\ ph["postman"] = "done" /\ ph["by_name"] = "done"

\* What a strategy saw when its fetch failed at the transport: get returned
\* None, or raised on the unopened client.
TransportFailed == {NoneV, "RuntimeError"}

\* C16 as claimed: when the fetches of both strategies fail at the transport,
\* find_postman_collection returns a failed value, different from the None it
\* returns when the strategies complete without a link.
C16_FailedDistinctFromNotFound ==
    CollectionSearchDone =>
       /\ (\A u \in Strategies : seen[u] \in TransportFailed)
             => ret["postman"] \in FailedValues
       /\ (\A u \in Strategies : seen[u] \in {"", "text"}) => ret["postman"] = NoneV

\* C16: find_postman_collection does not tell the two apart: it returns None
\* both when the fetches of both strategies fail at the transport and when
\* the strategies complete without a link, and never a failed value.
C16_NoLinkIsNone ==
    CollectionSearchDone =>
       /\ ret["postman"] \notin FailedValues
       /\ (\A u \in Strategies : seen[u] \in TransportFailed) => ret["postman"] = NoneV
       /\ (\A u \in Strategies : seen[u] \in {"", "text"}) => ret["postman"] = NoneV

\* Both fetches failed on the open client and None was returned.
C16_Witness ==
    /\ CollectionSearchDone
    /\ \A u \in Strategies : seen[u] = NoneV
    /\ ret["postman"] = NoneV
    /\ session = "open"
    /\ network = "up"

\* The origin of the example URL followed by each of the six manifest paths.
ManifestUrls ==
    {api_method.scheme \o "://" \o api_method.netloc \o path :
        path \in {"/openapi.json", "/openapi.yaml", "/swagger.json",
                  "/swagger.yaml", "/api-docs", "/redoc"}}

\* C17: a link returned by find_openapi, and so a link in openapi_link, is the
\* origin of the example URL followed by one of the six manifest paths.
C17_OnlyManifestUrls ==
    /\ IsLink(ret["openapi"]) => Sendable(api_method) /\ ret["openapi"] \in ManifestUrls
    /\ IsLink(openapi_link) => openapi_link \in ManifestUrls
    /\ pc = "done" => record.openapi_link \in ManifestUrls \cup {""}

\* The last of the six paths was confirmed and is in the record.
C17_Witness ==
    /\ pc = "done"
    /\ ret["openapi"] = "https://api.zoom.us/redoc"
    /\ record.openapi_link = "https://api.zoom.us/redoc"

\* The check of the path find_openapi is at succeeds with the response that is
\* in flight: status 200 to HEAD, or any body to the GET that follows another
\* status.
CheckSucceeds ==
    \/ oaOp = "head" /\ head_status = 200
    \/ oaOp = "get" /\ get_body["openapi"] # NoneV

\* C18: find_openapi returns the path of lowest index whose check succeeds:
\* it returns a link exactly when the check of the path it is at succeeds, the
\* link being the origin followed by that path, it moves on by one path, and
\* only past a path whose check did not succeed; and when the collection
\* search found nothing, the record has that link in openapi_link and "" in
\* the other five fields.
C18_LowestIndexHit ==
    /\ [][(ph["openapi"] = "flight" /\ ph'["openapi"] = "done")
             => IF CheckSucceeds
                THEN ret'["openapi"] = extract_domain(api_method) \o STANDARD_PATHS[oaIdx]
                ELSE ret'["openapi"] = NoneV /\ oaIdx = Len(STANDARD_PATHS)]_vars
    /\ [][(ph["openapi"] \in {"call", "flight"} /\ ph'["openapi"] = "call"
             /\ oaIdx' # oaIdx)
             => (oaIdx' = oaIdx + 1 /\ (ph["openapi"] = "flight" => ~CheckSucceeds))]_vars
    /\ [][(ph["openapi"] = "flight" /\ CheckSucceeds) => ph'["openapi"] # "call"]_vars
    /\ []((pc = "done" /\ IsLink(ret["openapi"]) /\ ~IsLink(ret["postman"]))
            => /\ record.openapi_link = ret["openapi"]
               /\ record.postman_link = ""
               /\ \A s \in Slots : SlotField(s) = "")

\* The third path, /swagger.json, was the first to be confirmed and is the
\* only link of the record.
C18_Witness ==
    /\ pc = "done"
    /\ ret["openapi"] = "https://api.zoom.us/swagger.json"
    /\ ret["postman"] = NoneV
    /\ record.openapi_link = "https://api.zoom.us/swagger.json"
    /\ record.postman_link = ""

\* C27: find_openapi checks the standard paths strictly in list order, one
\* at a time, and stops at the first hit: while a request for a path is to be
\* sent or in flight, every path before it has been checked and rejected and
\* no path after it has been checked; when a link is returned, the paths
\* before the confirmed one are the only ones that were rejected; and once
\* find_openapi has returned it sends no request and checks no path.
C27_InOrderStopAtFirstHit ==
    /\ [](ph["openapi"] \in {"call", "flight"} => rejected = 1..(oaIdx - 1))
    /\ []((ph["openapi"] = "done" /\ IsLink(ret["openapi"]))
            => \E k \in DOMAIN STANDARD_PATHS :
                  /\ ret["openapi"] = extract_domain(api_method) \o STANDARD_PATHS[k]
                  /\ rejected = 1..(k - 1))
    /\ [][ph["openapi"] = "done"
             => /\ ph'["openapi"] \notin {"call", "flight"}
                /\ ph'["openapi"] = "done" => rejected' = rejected]_vars

\* /openapi.json and /openapi.yaml were rejected, /swagger.json was confirmed
\* and find_openapi returned with the last three paths unchecked.
C27_Witness ==
    /\ pc = "tier1"
    /\ ph["openapi"] = "done"
    /\ ret["openapi"] = "https://api.zoom.us/swagger.json"
    /\ rejected = {1, 2}

\* The HEAD request for the path find_openapi is at comes back with a status
\* other than 200 and 404.
HeadOtherStatus ==
    /\ ph["openapi"] = "flight"
    /\ oaOp = "head"
    /\ head_status \notin {-1, 200, 404}
    /\ ph'["openapi"] # "flight"

\* The GET request for the path find_openapi is at comes back or fails.
FetchEnds == oaOp = "get" /\ oaOp' = "head"

\* _check_path returns True for the path at oaIdx and find_openapi returns it.
PathConfirmed ==
    /\ ph'["openapi"] = "done"
    /\ ret'["openapi"] = extract_domain(api_method) \o STANDARD_PATHS[oaIdx]
    /\ rejected' = rejected

\* _check_path returns False for the path at oaIdx.
PathRejected ==
    /\ rejected' = rejected \cup {oaIdx}
    /\ ret'["openapi"] = NoneV
    /\ IF oaIdx < Len(STANDARD_PATHS)
       THEN ph'["openapi"] = "call" /\ oaIdx' = oaIdx + 1 /\ oaOp' = "head"
       ELSE ph'["openapi"] = "done"

\* C28 as claimed: after a HEAD status other than 200 and 404 the same path
\* is fetched, and the path is confirmed only if the fetch returns a body
\* that is not empty; an empty body or none rejects it.
C28_FetchConfirmsNonEmpty ==
    /\ [][HeadOtherStatus
             => /\ ph'["openapi"] = "call"
                /\ oaOp' = "get"
                /\ oaIdx' = oaIdx
                /\ rejected' = rejected]_vars
    /\ [][FetchEnds
             => IF seen'["openapi"] \notin {NoneV, ""}
                THEN PathConfirmed ELSE PathRejected]_vars

\* C28: after a HEAD status other than 200 and 404 the same path is fetched,
\* and the path is confirmed exactly when the fetch returns a body, empty or
\* not (get answers None for every status but 200 and for every failure);
\* only None rejects it.
C28_FetchConfirmsAnyBody ==
    /\ [][HeadOtherStatus
             => /\ ph'["openapi"] = "call"
                /\ oaOp' = "get"
                /\ oaIdx' = oaIdx
                /\ rejected' = rejected]_vars
    /\ [][FetchEnds
             => IF seen'["openapi"] # NoneV
                THEN PathConfirmed ELSE PathRejected]_vars
    /\ []((ph["openapi"] = "done" /\ seen["openapi"] = "")
            => IsLink(ret["openapi"]))

\* The fetch of /openapi.yaml came back with an empty body and the path was
\* returned as the link.
C28_Witness ==
    /\ pc = "tier1"
    /\ ph["openapi"] = "done"
    /\ seen["openapi"] = ""
    /\ rejected = {1}
    /\ ret["openapi"] = "https://api.zoom.us/openapi.yaml"

\* The HEAD request for the path find_openapi is at fails at the transport,
\* before it is sent or in flight, or comes back with status 404.
HeadAbsent ==
    /\ oaOp = "head"
    /\ \/ /\ ph["openapi"] = "flight"
          /\ head_status \in {-1, 404}
          /\ ph'["openapi"] # "flight"
       \/ /\ ph["openapi"] = "call"
          /\ ph'["openapi"] # "flight"
          /\ <<ph'["openapi"], oaIdx'>> # <<ph["openapi"], oaIdx>>

\* C29: a transport error or a 404 on a path makes find_openapi reject that
\* path without a fetch for it and go on to the next path, if there is one;
\* None is returned only when all six paths have been rejected.
C29_AbsentWithoutFetch ==
    /\ [][HeadAbsent => (PathRejected /\ seen'["openapi"] = NoBody)]_vars
    /\ []((ph["openapi"] = "done" /\ ret["openapi"] = NoneV)
            => rejected = DOMAIN STANDARD_PATHS)

\* With the network down every HEAD request ended in the error sentinel: all
\* six paths were checked and rejected, none was fetched, None was returned.
C29_Witness ==
    /\ pc = "tier1"
    /\ network = "down"
    /\ session = "open"
    /\ Sendable(api_method)
    /\ ph["openapi"] = "done"
    /\ ret["openapi"] = NoneV
    /\ rejected = DOMAIN STANDARD_PATHS
    /\ seen["openapi"] = NoBody

\* The coroutine u was started and has not returned.
Running(u) == ph[u] \in {"call", "flight", "wait"}

\* C30: within one method the tiers are joined: search_all is called and a
\* slot started only in a state where find_openapi and
\* find_postman_collection, with its strategies, have returned, so that no
\* slot runs beside a tier-1 coroutine; and the record is built only in a
\* state where no coroutine of the method is running, after the tier-1
\* gather when it has a link and after all four slots otherwise.
C30_TiersJoined ==
    /\ []((\E s \in Slots : Running(s))
            => \A u \in Tier1Units \cup Strategies : ~Running(u))
    /\ [][((~serp_invoked /\ serp_invoked')
              \/ ((\A s \in Slots : ph[s] = "idle") /\ (\E s \in Slots : ph'[s] # "idle")))
             => /\ \A u \in Tier1Units : ph[u] = "done"
                /\ \A u \in Strategies : ~Running(u)]_vars
    /\ [][(outcome = Pending /\ outcome' # Pending)
             => /\ \A u \in Units : ~Running(u)
                /\ pc = "tier1" => \A u \in Tier1Units : ph[u] = "done"
                /\ (pc = "serp" /\ \E s \in Slots : ph[s] # "idle")
                      => \A s \in Slots : ph[s] = "done"]_vars
    /\ [](outcome # Pending => \A u \in Units : ~Running(u))

\* Both tier-1 components returned without a link, the four slots were
\* started, completed out of the declared order, and the record was built
\* with a link from a slot.
C30_Witness ==
    /\ pc = "done"
    /\ serp_invoked
    /\ reordered
    /\ openapi_link = NoneV
    /\ postman_link = NoneV
    /\ \A s \in Slots : ph[s] = "done"
    /\ outcome.kind = "return"
    /\ IsLink(record.ai_method_link)

\* C37: every permit head or get took is given back when the request ends,
\* whatever it ends with (a status, a status other than 200, a timeout, a
\* client error, any other exception): a step that ends a request gives one
\* permit back, a step that neither sends nor ends one leaves the permits as
\* they are, and whenever no request is in flight the free permits number
\* max_concurrent.
C37_SlotReleasedOnEveryOutcome ==
    /\ [][\A u \in Callers :
            (ph[u] = "flight" /\ ph'[u] # "flight") => semaphore' = semaphore + 1]_vars
    /\ [][(\A u \in Callers : (ph[u] = "flight") = (ph'[u] = "flight"))
            => semaphore' = semaphore]_vars
    /\ [](InFlight = {} => semaphore = max_concurrent)

\* The method is done after requests that failed and requests that were
\* answered, under a cap of one, and the one permit is free.
C37_Witness ==
    /\ pc = "done"
    /\ max_concurrent = 1
    /\ InFlight = {}
    /\ semaphore = 1
    /\ seen["openapi"] = NoBody
    /\ \E s \in Slots : seen[s] = NoneV
    /\ \E s \in Slots : seen[s] \notin {NoneV, NoBody, "RuntimeError"}

\* C36: when find_openapi and find_postman_collection both returned a link
\* for the method, the record returned has both, each in its own field, and
\* "" in the four search fields, and the web search was not asked: neither
\* tier-1 link is dropped for the other.
C36_BothTier1LinksKept ==
    (pc = "done" /\ IsLink(ret["openapi"]) /\ IsLink(ret["postman"]))
       => /\ outcome.kind = "return"
          /\ record.openapi_link = ret["openapi"]
          /\ record.postman_link = ret["postman"]
          /\ IsLink(record.openapi_link) /\ IsLink(record.postman_link)
          /\ \A s \in Slots : SlotField(s) = ""
          /\ ~serp_invoked

\* The method is done with the second standard path confirmed and a
\* collection found by the search by name.
C36_Witness ==
    /\ pc = "done"
    /\ ret["openapi"] = "https://api.zoom.us/openapi.json"
    /\ ret["postman"] = "https://www.postman.com/zoom-by-name/collection/1"
    /\ record.openapi_link = "https://api.zoom.us/openapi.json"
    /\ record.postman_link = "https://www.postman.com/zoom-by-name/collection/1"

\* The steps process_method goes through, each once.
Passes ==
    { <<"idle", "tier1">>, <<"tier1", "serp">>, <<"tier1", "done">>, <<"serp", "done">> }

\* The steps of a coroutine that makes one request: started, its request sent
\* or failed, the request back, and its state dropped past tier 1.
OneRequest ==
    { <<"idle", "call">>, <<"idle", "done">>, <<"call", "flight">>, <<"call", "done">>,
      <<"flight", "done">>, <<"done", "idle">> }

\* C31: a method is processed in one pass without retries: process_method
\* goes from start to the tier-1 gather to the search or the record and never
\* back, find_openapi and find_postman_collection are started once, with the
\* method, search_all is called at most once, between the tier-1 gather and
\* the record, every strategy and every slot sends at most one request and
\* is not started again once it has returned, and, every request sent coming
\* back, the method ends with a record.
C31_OnePassNoRetries ==
    /\ [][pc' # pc => <<pc, pc'>> \in Passes]_vars
    /\ [][\A u \in Tier1Units :
             (ph[u] = "idle" /\ ph'[u] # "idle") => (pc = "idle" /\ pc' = "tier1")]_vars
    /\ [][serp_invoked' # serp_invoked
             => (~serp_invoked /\ pc = "tier1" /\ pc' \in {"serp", "done"})]_vars
    /\ [][\A u \in Strategies \cup Slots :
             ph'[u] # ph[u]
                => /\ <<ph[u], ph'[u]>> \in OneRequest
                   /\ ph'[u] = "flight" => seen[u] = NoBody
                   /\ (ph[u] = "done" /\ u \in Strategies) => pc' # "tier1"
                   /\ (ph[u] = "idle" /\ u \in Slots) => (pc = "tier1" /\ pc' = "serp")]_vars
    /\ <>(pc = "done" /\ outcome.kind = "return")

\* The method went through both tiers in one pass: the tier-1 components
\* returned without a link, search_all was called, the slots made their
\* requests and the record has the link of one of them.
C31_Witness ==
    /\ pc = "done"
    /\ serp_invoked
    /\ openapi_link = NoneV
    /\ postman_link = NoneV
    /\ \A s \in Slots : ph[s] = "done" /\ seen[s] # NoBody
    /\ outcome.kind = "return"
    /\ IsLink(record.search_method_name)

\* search_all: the engine the query of a slot is sent to.
SlotEngine(s) ==
    IF s \in {"search_method_name", "search_method_link"}
    THEN "google_light" ELSE "google_ai_mode"

\* search_all: what the query of a slot is built from next to the name.
SlotQuery(s) ==
    IF s \in {"search_method_name", "ai_method_name"} THEN "method" ELSE "method_link"

\* The slot whose query goes to engine e and is built from q.
SlotOf(e, q) == CHOOSE s \in Slots : SlotEngine(s) = e /\ SlotQuery(s) = q

\* search_all has gathered its four slots and process_method has returned.
SlotsGathered == /\ pc = "done"
                 /\ \A s \in Slots : ph[s] = "done"

----------------------------------------------------------------------------
(* One slot from its parsed response on: the candidates the engine listed are *)
(* drawn from Candidates, and the slot returns what it selects from them.     *)

\* Every list of at most MaxResults candidates.
Responses == UNION {[1..n -> Candidates] : n \in 0..MaxResults}

InitSelect ==
    /\ InitPipeline
    /\ NoCandidate /\ NoOutput /\ NoLoader /\ NoHost /\ NoTracker
    /\ max_concurrent = 1
    /\ network = "up"
    /\ NoBatch
    /\ response_results \in Responses
    /\ select_method \in Descriptors
    /\ api_method = select_method
    /\ engine = "none"
    /\ selected = NoneV

\* _search_google_light returns what it selects from organic_results.
google_light_returns ==
    /\ engine = "none"
    /\ engine' = "google_light"
    /\ selected' = search_google_light_select(response_results, select_method)
    /\ UNCHANGED <<response_results, select_method, pipelineVars, batchVars, candidateVars, outputVars, loaderVars, hostVars, trackerVars>>

\* _search_google_ai_mode returns what it selects from references.
google_ai_mode_returns ==
    /\ engine = "none"
    /\ engine' = "google_ai_mode"
    /\ selected' = search_google_ai_mode_select(response_results, select_method)
    /\ UNCHANGED <<response_results, select_method, pipelineVars, batchVars, candidateVars, outputVars, loaderVars, hostVars, trackerVars>>

NextSelect ==
    \/ google_light_returns
    \/ google_ai_mode_returns

SpecSelect == InitSelect /\ [][NextSelect]_vars

----------------------------------------------------------------------------
(* Properties of the selection, stated on SpecSelect                          *)

\* The candidate fails all five relevance checks.
FailsAllChecks(r, d) ==
    /\ ~check_domain_match(r.link, d)
    /\ ~check_name_in_domain(r.link, d)
    /\ ~check_name_in_text(get(r, "title"), get(r, "snippet"), d)
    /\ ~check_part_in_text(get(r, "title"), get(r, "snippet"), d)
    /\ ~check_official_docs(r.link, get(r, "title"), get(r, "snippet"), d)

\* FailsAllChecks on every entry of Candidates, computed once for each
\* descriptor.
Discarded ==
    [d \in Descriptors |-> [r \in Candidates |-> FailsAllChecks(r, d)]]

\* C20: a candidate that fails all five relevance checks is never what a slot
\* selects, whatever its score, and what a slot selects is the link of a
\* candidate of its response that passes the relevance filter.
C20_IrrelevantNeverSelected ==
    engine # "none" =>
       /\ \A k \in DOMAIN response_results :
             (/\ Truthy(response_results[k].link)
              /\ Discarded[select_method][response_results[k]])
                => selected # response_results[k].link
       /\ selected # "error" =>
             \E k \in DOMAIN response_results :
                /\ response_results[k].link = selected
                /\ ~Discarded[select_method][response_results[k]]

\* A candidate that fails the five checks is listed first and scores higher
\* than the relevant candidate after it: the relevant one is selected.
C20_Witness ==
    /\ engine # "none"
    /\ Len(response_results) >= 2
    /\ Truthy(response_results[1].link)
    /\ Discarded[select_method][response_results[1]]
    /\ Score[select_method][response_results[1]] > Score[select_method][response_results[2]]
    /\ selected = response_results[2].link

----------------------------------------------------------------------------
(* One slot whose response is long enough for the two slices of              *)
(* _select_best_result to cut it: copies of one candidate, then a few others. *)

\* Every list of k copies of one candidate followed by at most MaxTail
\* candidates.
LongResponses ==
    { [i \in 1..k |-> r] \o tail :
         k \in 0..MaxPad, r \in Candidates,
         tail \in UNION {[1..n -> Candidates] : n \in 0..MaxTail} }

InitWindow ==
    /\ InitPipeline
    /\ NoCandidate /\ NoOutput /\ NoLoader /\ NoHost /\ NoTracker
    /\ max_concurrent = 1
    /\ network = "up"
    /\ NoBatch
    /\ response_results \in LongResponses
    /\ select_method \in Descriptors
    /\ api_method = select_method
    /\ engine = "none"
    /\ selected = NoneV

SpecWindow == InitWindow /\ [][NextSelect]_vars

\* The list the engine of the slot handed to _select_best_result.
Handed ==
    IF engine = "google_ai_mode"
    THEN formatted(response_results)
    ELSE response_results

\* The places of the handed list among its first 10 whose candidate has a link
\* and passes the relevance filter.
Survivors ==
    {i \in DOMAIN Handed : i <= 10 /\ Relevant[select_method][Handed[i]]}

\* The first 5 of the survivors.
ScoredWindow ==
    {i \in Survivors : Cardinality({j \in Survivors : j < i}) < 5}

\* C21: what a slot selects is the link of the candidate with the highest
\* score among the first 5 that pass the relevance filter out of the first 10
\* it was handed, the earliest of them when several have that score; a
\* candidate outside these windows is never selected, and with no survivor no
\* link is selected.
C21_BestOfWindows ==
    engine # "none" =>
       /\ ScoredWindow = {} => selected = "error"
       /\ ScoredWindow # {} =>
             \E i \in ScoredWindow :
                /\ selected = Handed[i].link
                /\ \A j \in ScoredWindow :
                      /\ Score[select_method][Handed[j]] <= Score[select_method][Handed[i]]
                      /\ j < i => Score[select_method][Handed[j]]
                                     < Score[select_method][Handed[i]]
       /\ \A k \in DOMAIN Handed \ ScoredWindow :
             selected = Handed[k].link =>
                \E i \in ScoredWindow : Handed[i].link = selected

\* Five relevant candidates of equal score come first and a relevant one that
\* scores higher comes sixth: the first is selected.
C21_Witness ==
    /\ engine # "none"
    /\ Len(Handed) >= 6
    /\ {1, 2, 3, 4, 5, 6} \subseteq Survivors
    /\ 6 \notin ScoredWindow
    /\ Score[select_method][Handed[6]] > Score[select_method][Handed[1]]
    /\ selected = Handed[1].link
    /\ selected # Handed[6].link

\* C33: the two engines' responses come to the same candidates before the
\* selection: for every list of entries that all have a link, a title and
\* maybe a snippet, the slot returns the same value whether the list came as
\* organic_results of the light engine or as references of the ai engine, an
\* entry without snippet counting as one with the empty snippet.
C33_EnginesAgree ==
    (engine # "none" /\ \A k \in DOMAIN response_results : response_results[k].link # NoneV)
       => /\ selected = search_google_light_select(response_results, select_method)
          /\ selected = search_google_ai_mode_select(response_results, select_method)
          /\ selected = search_google_light_select(formatted(response_results), select_method)

\* The ai engine listed more than ten references, the one that is selected
\* without a snippet, and returned the link the light engine returns.
C33_Witness ==
    /\ engine = "google_ai_mode"
    /\ Len(response_results) > 10
    /\ \A k \in DOMAIN response_results : response_results[k].link # NoneV
    /\ \E k \in DOMAIN response_results :
          /\ response_results[k].snippet = Absent
          /\ selected = response_results[k].link
    /\ \E k \in DOMAIN response_results : ~Relevant[select_method][response_results[k]]
    /\ selected = search_google_light_select(response_results, select_method)

----------------------------------------------------------------------------
(* One candidate put to _is_relevant_to_service and _score_url_relevance,     *)
(* and put to the filter again after a word of the service name was added to  *)
(* its title.                                                                 *)

\* Results whose links end in a generic pattern in the path, after other
\* segments, in the query or in the fragment, or do not.
Pages ==
    { [link |-> "https://zoom.us/docs", title |-> "Docs", snippet |-> ""],
      [link |-> "https://example.com/v2/docs", title |-> "Reference", snippet |-> ""],
      [link |-> "https://example.com/guide#/api", title |-> "Guide", snippet |-> "Zoom"],
      [link |-> "https://example.com/docs?lang=en", title |-> "", snippet |-> ""],
      [link |-> "https://example.com/search?q=/reference", title |-> "Search", snippet |-> ""],
      [link |-> "https://example.com/Documentation", title |-> "Manual", snippet |-> ""],
      [link |-> "https://docs.example.com/docs/", title |-> "API", snippet |-> "SDK"],
      [link |-> "https://developers.zoom.us/docs/api/meetings#create",
       title |-> "Zoom Meetings API", snippet |-> ""] }

\* The descriptors the candidate is matched against: a service name of one
\* word, and one of several words.
FilterDescriptors ==
    Descriptors \cup
       { [name |-> "Zoom Video SDK", method |-> "Create meeting",
          scheme |-> "https", netloc |-> "api.zoom.us", path |-> "/v2/users/me/meetings"] }

\* The words of the service name longer than 3 characters, as written.
NameTokens(d) == {Words(d.name)[k] : k \in {j \in DOMAIN Words(d.name) : Len(Words(d.name)[j]) > 3}}

InitCandidate ==
    /\ InitPipeline
    /\ max_concurrent = 1
    /\ network = "up"
    /\ api_method \in {d \in Descriptors : d.scheme # ""}
    /\ NoBatch
    /\ response_results = <<>>
    /\ select_method \in FilterDescriptors
    /\ engine = "none"
    /\ selected = NoneV
    /\ NoOutput
    /\ NoLoader /\ NoHost /\ NoTracker
    /\ candidate \in Pages
    /\ relevance = "unknown"
    /\ prior_relevance = "unknown"
    /\ url_score = NoScore
    /\ tokens_added = 0

\* _is_relevant_to_service returns its verdict on the candidate.
is_relevant_returns ==
    /\ relevance = "unknown"
    /\ relevance' = IF is_relevant_to_service(candidate.link, candidate.title,
                                              candidate.snippet, select_method)
                    THEN "kept" ELSE "discarded"
    /\ UNCHANGED <<candidate, prior_relevance, url_score, tokens_added,
                   pipelineVars, batchVars, selectVars, outputVars, loaderVars, hostVars, trackerVars>>

\* _score_url_relevance returns the score of the candidate's link.
score_returns ==
    /\ ~url_score.known
    /\ url_score' = [known |-> TRUE,
                     value |-> score_url_relevance(candidate.link, select_method)]
    /\ UNCHANGED <<candidate, relevance, prior_relevance, tokens_added,
                   pipelineVars, batchVars, selectVars, outputVars, loaderVars, hostVars, trackerVars>>

\* The same result comes with a word of the service name, longer than 3
\* characters, added to its title: the filter is to be asked again.
title_gains_token ==
    /\ relevance # "unknown"
    /\ tokens_added < MaxTokens
    /\ \E token \in NameTokens(select_method) :
          candidate' = [candidate EXCEPT !.title = @ \o " " \o token]
    /\ prior_relevance' = relevance
    /\ relevance' = "unknown"
    /\ tokens_added' = tokens_added + 1
    /\ UNCHANGED <<url_score, pipelineVars, batchVars, selectVars, outputVars, loaderVars, hostVars, trackerVars>>

NextCandidate ==
    \/ is_relevant_returns
    \/ score_returns
    \/ title_gains_token

SpecCandidate == InitCandidate /\ [][NextCandidate]_vars

----------------------------------------------------------------------------
(* Properties of the filter and the score, stated on SpecCandidate            *)

\* C22: the relevance filter is monotonic in title matches: with a word of the
\* service name longer than 3 characters added to its title, a candidate that
\* was kept is kept and a candidate that was discarded is kept.
C22_TitleTokenMonotonic ==
    (tokens_added > 0 /\ relevance # "unknown") =>
       /\ prior_relevance = "kept" => relevance = "kept"
       /\ prior_relevance = "discarded" => relevance = "kept"

\* A candidate on a foreign domain that was discarded is kept once a word of a
\* service name of several words is in its title.
C22_Witness ==
    /\ tokens_added = 1
    /\ prior_relevance = "discarded"
    /\ relevance = "kept"
    /\ select_method.name = "Zoom Video SDK"
    /\ urlparse(candidate.link).netloc = "example.com"

\* The path of the URL is exactly one of the generic patterns.
PathIsGeneric(url) ==
    \E k \in DOMAIN generic_patterns : Lower(urlparse(url).path) = generic_patterns[k]

\* The URL, taken as one string in lower case, ends with a generic pattern.
UrlEndsGeneric(url) ==
    \E k \in DOMAIN generic_patterns : EndsWith(Lower(url), generic_patterns[k])

\* C23 as stated: the score has 20 subtracted exactly when the path of the URL
\* is exactly one of /docs, /documentation, /api, /reference.
C23_PenaltyIffExactPath ==
    url_score.known =>
       url_score.value =
          score_bonuses(candidate.link, select_method)
             - (IF PathIsGeneric(candidate.link) THEN 20 ELSE 0)

\* C23: the score has 20 subtracted exactly when the URL as a whole string, in
\* lower case, ends with one of /docs, /documentation, /api, /reference: a path
\* that ends with one after other segments, a query or a fragment that ends
\* with one takes the penalty, and a path that is exactly one of them but is
\* followed by a query or a slash takes none.
C23_PenaltyIffUrlEnds ==
    url_score.known =>
       /\ url_score.value =
             score_bonuses(candidate.link, select_method)
                - (IF UrlEndsGeneric(candidate.link) THEN 20 ELSE 0)
       /\ (PathIsGeneric(candidate.link) /\ ~UrlEndsGeneric(candidate.link))
             => url_score.value = score_bonuses(candidate.link, select_method)
       /\ (~PathIsGeneric(candidate.link) /\ UrlEndsGeneric(candidate.link))
             => url_score.value = score_bonuses(candidate.link, select_method) - 20

\* The path /v2/docs ends with a generic pattern after another segment and the
\* score is 20 below the bonuses.
C23_Witness ==
    /\ url_score.known
    /\ candidate.link = "https://example.com/v2/docs"
    /\ ~PathIsGeneric(candidate.link)
    /\ url_score.value = score_bonuses(candidate.link, select_method) - 20

\* The host of the candidate has one of the known documentation-host patterns.
OnDocHost ==
    \E k \in DOMAIN official_doc_domains :
       In(official_doc_domains[k], Lower(urlparse(candidate.link).netloc))

\* One of the checks (a) to (d) accepts the candidate.
PassesAToD ==
    \/ check_domain_match(candidate.link, select_method)
    \/ check_name_in_domain(candidate.link, select_method)
    \/ check_name_in_text(candidate.title, candidate.snippet, select_method)
    \/ check_part_in_text(candidate.title, candidate.snippet, select_method)

\* C39: check (e), the known-documentation-host check, never changes the
\* verdict of the relevance filter: the candidate is kept exactly when one of
\* the checks (a) to (d) accepts it, a candidate (e) accepts is one that (c) or
\* (d) accepts, and a candidate on a documentation host that (a) to (d) reject
\* is discarded.
C39_OfficialDocsCheckRedundant ==
    relevance # "unknown" =>
       /\ (relevance = "kept") = PassesAToD
       /\ check_official_docs(candidate.link, candidate.title, candidate.snippet,
                              select_method)
             => \/ check_name_in_text(candidate.title, candidate.snippet, select_method)
                \/ check_part_in_text(candidate.title, candidate.snippet, select_method)
       /\ (OnDocHost /\ ~PassesAToD) => relevance = "discarded"

\* The page on docs.example.com was discarded although it is on a
\* documentation host, and is kept once its title names the service: check (e)
\* accepts it then, and so does check (d).
C39_Witness ==
    /\ urlparse(candidate.link).netloc = "docs.example.com"
    /\ OnDocHost
    /\ tokens_added = 1
    /\ prior_relevance = "discarded"
    /\ relevance = "kept"
    /\ check_official_docs(candidate.link, candidate.title, candidate.snippet, select_method)
    /\ check_part_in_text(candidate.title, candidate.snippet, select_method)
    /\ ~check_domain_match(candidate.link, select_method)
    /\ ~check_name_in_domain(candidate.link, select_method)

----------------------------------------------------------------------------
(* main.py: the batch run.  Here process_method is taken one gather at a      *)
(* time: what its components return is drawn from what they can return.       *)

\* The descriptors of the input file, in file order.
InputFile ==
    << [name |-> "Zoom", method |-> "Create meeting",
        scheme |-> "https", netloc |-> "api.zoom.us", path |-> "/v2/users/me/meetings"],
       [name |-> "Slack", method |-> "Send message",
        scheme |-> "https", netloc |-> "slack.com", path |-> "/api/chat.postMessage"],
       [name |-> "Bitrix24", method |-> "add user",
        scheme |-> "", netloc |-> "", path |-> "not a url"] >>

\* What find_openapi can hand to the tier-1 gather: None, the origin followed
\* by a standard path, or, from a replacement component, an exception.
OpenapiReturns(d) ==
    {NoneV, ExcV} \cup
    (IF Sendable(d)
     THEN {extract_domain(d) \o STANDARD_PATHS[k] : k \in DOMAIN STANDARD_PATHS}
     ELSE {})

\* What find_postman_collection can hand to the tier-1 gather.
PostmanReturns ==
    {NoneV, ExcV} \cup {"https://www.postman.com" \o CollectionPath(u) : u \in Strategies}

\* What the four slots can hand to search_all's gather.
SlotReturns ==
    {f \in [Slots -> {"error"} \cup {BestLink(s) : s \in Slots}] :
        \A s \in Slots : f[s] \in {"error", BestLink(s)}}

\* What a process_method that was not entered left in gathered.
NotGathered ==
    [oa |-> NoneV, pm |-> NoneV, slots |-> [s \in Slots |-> NoneV], fault |-> "none"]

\* The test for a success line looking at the two tier-1 fields only.
has_success_tier1_only(r) ==
    \/ Truthy(r.openapi_link) /\ r.openapi_link # "error"
    \/ Truthy(r.postman_link) /\ r.postman_link # "error"

\* process_with_logging: the test for a success line.
has_success(r) ==
    \/ Truthy(r.openapi_link) /\ r.openapi_link # "error"
    \/ Truthy(r.postman_link) /\ r.postman_link # "error"
    \/ Truthy(r.search_method_name) /\ r.search_method_name \notin {"", "error"}
    \/ Truthy(r.search_method_link) /\ r.search_method_link \notin {"", "error"}
    \/ Truthy(r.ai_method_name) /\ r.ai_method_name \notin {"", "error"}
    \/ Truthy(r.ai_method_link) /\ r.ai_method_link \notin {"", "error"}

\* process_with_logging whose except clauses log the error and re-raise.
process_with_logging_reraises(d, o) ==
    IF o.kind = "return"
    THEN [outcome |-> Returned(o.rec),
          line |-> IF has_success(o.rec) THEN "success"
                   ELSE "error: No documentation found"]
    ELSE IF o.kind = "timeout"
    THEN [outcome |-> Raised, line |-> "error: Timeout after 10 seconds"]
    ELSE [outcome |-> Raised, line |-> "error: exception"]

\* process_with_logging recording a timeout as nothing found: "" in the six
\* discovery fields.
process_with_logging_timeout_empty(d, o) ==
    IF o.kind = "return"
    THEN [outcome |-> Returned(o.rec),
          line |-> IF has_success(o.rec) THEN "success"
                   ELSE "error: No documentation found"]
    ELSE IF o.kind = "timeout"
    THEN [outcome |-> Returned(ProcessingResult(d, "", "", "", "", "", "")),
          line |-> "error: Timeout after 10 seconds"]
    ELSE [outcome |-> Returned(result_error(d)), line |-> "error: exception"]

\* process_with_logging from the end of process_method on: what the task
\* ends with and the line it logs.
process_with_logging(d, o) ==
    IF o.kind = "return"
    THEN [outcome |-> Returned(o.rec),
          line |-> IF has_success(o.rec) THEN "success"
                   ELSE "error: No documentation found"]
    ELSE IF o.kind = "timeout"
    THEN [outcome |-> Returned(result_error(d)),
          line |-> "error: Timeout after 10 seconds"]
    ELSE [outcome |-> Returned(result_error(d)), line |-> "error: exception"]

InitBatch ==
    /\ \E n \in 1..MaxBatch : api_methods = SubSeq(InputFile, 1, n)
    /\ main_pc = "init"
    /\ task = [i \in DOMAIN api_methods |-> "none"]
    /\ gathered = [i \in DOMAIN api_methods |-> NotGathered]
    /\ task_outcome = [i \in DOMAIN api_methods |-> Pending]
    /\ log = [i \in DOMAIN api_methods |-> <<>>]
    /\ pbar = 0
    /\ completion = <<>>
    /\ results = <<>>

\* The pipeline variables while the batch run is looked at.
PipelineIdle ==
    /\ InitPipeline
    /\ max_concurrent = MaxCap
    /\ network = "up"
    /\ api_method = InputFile[1]

\* main: the tasks are created, one per descriptor, and gathered.
main_start ==
    /\ main_pc = "init"
    /\ main_pc' = "running"
    /\ task' = [i \in DOMAIN api_methods |-> "pending"]
    /\ UNCHANGED <<api_methods, gathered, task_outcome, log, pbar, completion, results>>
    /\ UNCHANGED <<pipelineVars, selectVars, candidateVars, outputVars, loaderVars, hostVars, trackerVars>>

\* process_with_logging stepping the progress bar after a return of
\* process_method only, not in a finally clause.
TaskEnds_update_on_return(i, o) ==
    LET pwl == process_with_logging(api_methods[i], o)
    IN /\ task' = [task EXCEPT ![i] = "done"]
       /\ task_outcome' = [task_outcome EXCEPT ![i] = pwl.outcome]
       /\ log' = [log EXCEPT ![i] = Append(log[i], pwl.line)]
       /\ pbar' = IF o.kind = "return" THEN pbar + 1 ELSE pbar
       /\ completion' = Append(completion, i)

\* The task of descriptor i ends: process_with_logging logs its line, steps
\* the progress bar in its finally clause and the task has its outcome.
TaskEnds(i, o) ==
    LET pwl == process_with_logging(api_methods[i], o)
    IN /\ task' = [task EXCEPT ![i] = "done"]
       /\ task_outcome' = [task_outcome EXCEPT ![i] = pwl.outcome]
       /\ log' = [log EXCEPT ![i] = Append(log[i], pwl.line)]
       /\ pbar' = pbar + 1
       /\ completion' = Append(completion, i)

\* Task i: process_method after its tier-1 gather.  With a link the record is
\* returned and the task ends; without, search_all is awaited.  What the two
\* components handed to the gather is kept whenever one of them handed a link.
task_tier1(i) ==
    /\ main_pc = "running"
    /\ task[i] = "pending"
    /\ \E oa \in OpenapiReturns(api_methods[i]), pm \in PostmanReturns :
          LET links == tier1_links(gather_return_exceptions(<<oa, pm>>))
          IN /\ gathered' = IF \E v \in {oa, pm} : Truthy(v) /\ ~IsException(v)
                            THEN [gathered EXCEPT ![i].oa = oa, ![i].pm = pm]
                            ELSE gathered
             /\ IF tier1_found(links[1], links[2])
                THEN TaskEnds(i, process_method_outer(api_methods[i],
                         Returned(result_tier1(api_methods[i], links[1], links[2]))))
                ELSE /\ task' = [task EXCEPT ![i] = "serp"]
                     /\ UNCHANGED <<task_outcome, log, pbar, completion>>
    /\ UNCHANGED <<api_methods, main_pc, results>>
    /\ UNCHANGED <<pipelineVars, selectVars, candidateVars, outputVars, loaderVars, hostVars, trackerVars>>

\* Task i: process_method after search_all, whose four slots have returned.
task_search_all(i) ==
    /\ main_pc = "running"
    /\ task[i] = "serp"
    /\ \E rets \in SlotReturns :
          /\ gathered' = [gathered EXCEPT ![i].slots = rets]
          /\ TaskEnds(i, process_method_outer(api_methods[i],
                 process_method_serp(api_methods[i],
                     [kind |-> "return",
                      value |-> search_all_results(gather_return_exceptions(rets))])))
    /\ UNCHANGED <<api_methods, main_pc, results>>
    /\ UNCHANGED <<pipelineVars, selectVars, candidateVars, outputVars, loaderVars, hostVars, trackerVars>>

\* Task i: process_method with a search component that raises.
task_search_all_raises(i) ==
    /\ main_pc = "running"
    /\ task[i] = "serp"
    /\ TaskEnds(i, process_method_outer(api_methods[i],
           process_method_serp(api_methods[i],
               [kind |-> "raise", value |-> [s \in Slots |-> NoneV]])))
    /\ UNCHANGED <<api_methods, main_pc, gathered, results>>
    /\ UNCHANGED <<pipelineVars, selectVars, candidateVars, outputVars, loaderVars, hostVars, trackerVars>>

\* Task i: a processor handed to process_with_logging whose process_method
\* raises, an exception or asyncio.TimeoutError.
task_processor_raises(i, kind) ==
    /\ main_pc = "running"
    /\ task[i] = "pending"
    /\ gathered' = [gathered EXCEPT ![i].fault = kind]
    /\ TaskEnds(i, [kind |-> kind, rec |-> NoRecord])
    /\ UNCHANGED <<api_methods, main_pc, results>>
    /\ UNCHANGED <<pipelineVars, selectVars, candidateVars, outputVars, loaderVars, hostVars, trackerVars>>

(* output.py *)

\* urlparse raises ValueError: a bracket of an IPv6 host without its partner.
urlparse_raises(url) ==
    In("[", urlparse(url).netloc) # In("]", urlparse(url).netloc)

\* _validate_url handing every value that is not empty on as it is.
validate_url_unchecked(url) ==
    IF ~Truthy(url) THEN "" ELSE url

\* OutputWriter._validate_url
validate_url(url) ==
    IF ~Truthy(url) THEN ""
    ELSE IF url = "error" THEN "error"
    ELSE IF urlparse_raises(url) THEN "error"
    ELSE IF urlparse(url).scheme \in {"http", "https"} /\ urlparse(url).netloc # ""
         THEN url
    ELSE "error"

\* The fields of a record that go through _validate_url.
UrlFields == LinkFields \cup {"method_link"}

\* _save_csv: the columns of the file, in order.
fieldnames ==
    << "name", "method", "method_link", "openapi_link", "postman_link",
       "search_method_name", "search_method_link", "ai_method_name", "ai_method_link" >>

\* What a field can hold when it comes to _validate_url: None, nothing, the
\* sentinel, two absolute http(s) URLs, another scheme, no scheme, no host, a
\* host urlparse raises on.
FieldValues ==
    << NoneV, "", "error", "https://api.zoom.us/openapi.json",
       "HTTP://Example.com/a?b#c", "ftp://example.com/x", "not a url",
       "https:///docs", "http://[::1/docs" >>

\* The values of FieldValues that are absolute http or https URLs.
AbsoluteHttpUrls == {"https://api.zoom.us/openapi.json", "HTTP://Example.com/a?b#c"}

\* Every value a field of a record can hold when it comes to _validate_url.
RecordValues ==
    {FieldValues[k] : k \in DOMAIN FieldValues}
       \cup {method_link(d) : d \in Descriptors \cup {InputFile[k] : k \in DOMAIN InputFile}}
       \cup UNION {OpenapiReturns(InputFile[k]) : k \in DOMAIN InputFile}
       \cup PostmanReturns
       \cup {BestLink(s) : s \in Slots}

\* _validate_url on every value of RecordValues, computed once.
Validated == [url \in RecordValues |-> validate_url(url)]

\* _save_csv / _save_json: the value written for a field of a record.
written_value(result, f) ==
    IF f \in UrlFields THEN Validated[result[f]] ELSE result[f]

\* The place of field f among the columns.
Column(f) == CHOOSE k \in DOMAIN fieldnames : fieldnames[k] = f

\* _save_csv: the row written for a record, in the order of the columns.
csv_row(result) == [k \in DOMAIN fieldnames |-> written_value(result, fieldnames[k])]

\* _save_json: the object written for a record.
json_item(result) ==
    [f \in {fieldnames[k] : k \in DOMAIN fieldnames} |-> written_value(result, f)]

\* main after asyncio.gather(*tasks): every task has ended, the results are
\* the tasks' records in submission order.
main_gathered ==
    /\ main_pc = "running"
    /\ \A i \in DOMAIN api_methods : task[i] = "done"
    /\ LET g == gather(task_outcome)
       IN IF g.kind = "raise"
          THEN /\ main_pc' = "aborted"
               /\ UNCHANGED results
          ELSE /\ main_pc' = "gathered"
               /\ results' = [i \in DOMAIN api_methods |-> g.value[i].rec]
    /\ UNCHANGED <<api_methods, task, gathered, task_outcome, log, pbar, completion>>
    /\ UNCHANGED <<pipelineVars, selectVars, candidateVars, outputVars, loaderVars, hostVars, trackerVars>>

\* main: OutputWriter.save_results(results) went through, both files written,
\* or raised while writing the first or the second file and main exits with
\* status 1.
main_saved(ok) ==
    /\ main_pc = "gathered"
    /\ main_pc' = IF ok THEN "saved" ELSE "save_failed"
    /\ IF ok
       THEN /\ csv_rows' = [i \in DOMAIN results |-> csv_row(results[i])]
            /\ json_items' = [i \in DOMAIN results |-> json_item(results[i])]
       ELSE \/ UNCHANGED <<csv_rows, json_items>>
            \/ /\ csv_rows' = [i \in DOMAIN results |-> csv_row(results[i])]
               /\ UNCHANGED json_items
    /\ UNCHANGED <<api_methods, task, gathered, task_outcome, log, pbar, completion,
                 results>>
    /\ UNCHANGED <<pipelineVars, selectVars, candidateVars, loaderVars, hostVars, trackerVars>>

NextBatch ==
    \/ main_start
    \/ \E i \in DOMAIN api_methods : task_tier1(i)
    \/ \E i \in DOMAIN api_methods : task_search_all(i)
    \/ \E i \in DOMAIN api_methods : task_search_all_raises(i)
    \/ \E i \in DOMAIN api_methods, kind \in {"raise", "timeout"} :
          task_processor_raises(i, kind)
    \/ main_gathered
    \/ \E ok \in BOOLEAN : main_saved(ok)

InitMain == PipelineIdle /\ InitBatch /\ NoSelect /\ NoCandidate /\ NoOutput /\ NoLoader /\ NoHost /\ NoTracker

SpecBatch == InitMain /\ [][NextBatch]_vars

----------------------------------------------------------------------------
(* Properties of the batch run, stated on SpecBatch                          *)

\* main handed the gathered records on to save_results.
Collected == main_pc \in {"gathered", "saved", "save_failed"}

\* C6: a fault in a tier-1 component, a slot or a method leaves its siblings
\* alone: in every method that did not fault itself, a component or slot that
\* returned a link has that link in its field whatever the other units did,
\* a tier-1 component without a link has "" next to the sibling's link, and
\* the gather of the batch is not aborted and keeps every task's record.
C6_FaultContained ==
    /\ main_pc # "aborted"
    /\ \A i \in DOMAIN api_methods :
          (task[i] = "done" /\ gathered[i].fault = "none") =>
             LET g == gathered[i]
                 r == task_outcome[i].rec
             IN /\ task_outcome[i].kind = "return"
                /\ IsLink(g.oa) => r.openapi_link = g.oa
                /\ IsLink(g.pm) => r.postman_link = g.pm
                /\ (IsLink(g.oa) /\ ~IsLink(g.pm)) => r.postman_link = ""
                /\ (IsLink(g.pm) /\ ~IsLink(g.oa)) => r.openapi_link = ""
                /\ \A s \in Slots : IsLink(g.slots[s]) => r[s] = g.slots[s]
    /\ Collected => \A i \in DOMAIN api_methods : results[i] = task_outcome[i].rec

\* The first method timed out; the second has the link of find_openapi beside
\* a collection search that raised; the batch was gathered.
C6_Witness ==
    /\ Collected
    /\ Len(api_methods) = 2
    /\ gathered[1].fault = "timeout"
    /\ IsLink(gathered[2].oa)
    /\ IsException(gathered[2].pm)
    /\ results[2].openapi_link = gathered[2].oa

\* The record process_method builds for descriptor d from what its components
\* handed to its gathers.
ExpectedRecord(d, g) ==
    IF IsLink(g.oa) \/ IsLink(g.pm)
    THEN [name |-> d.name, method |-> d.method, method_link |-> method_link(d),
          openapi_link |-> IF IsLink(g.oa) THEN g.oa ELSE "",
          postman_link |-> IF IsLink(g.pm) THEN g.pm ELSE "",
          search_method_name |-> "", search_method_link |-> "",
          ai_method_name |-> "", ai_method_link |-> ""]
    ELSE [name |-> d.name, method |-> d.method, method_link |-> method_link(d),
          openapi_link |-> "", postman_link |-> "",
          search_method_name |->
              IF IsLink(g.slots["search_method_name"])
              THEN g.slots["search_method_name"] ELSE "error",
          search_method_link |->
              IF IsLink(g.slots["search_method_link"])
              THEN g.slots["search_method_link"] ELSE "error",
          ai_method_name |->
              IF IsLink(g.slots["ai_method_name"])
              THEN g.slots["ai_method_name"] ELSE "error",
          ai_method_link |->
              IF IsLink(g.slots["ai_method_link"])
              THEN g.slots["ai_method_link"] ELSE "error"]

C32_LoggedExactlyOnce ==
    /\ \A i \in DOMAIN api_methods :
          /\ Len(log[i]) = IF task[i] = "done" THEN 1 ELSE 0
          /\ task[i] = "done" =>
                /\ gathered[i].fault = "timeout" => log[i][1] = "error: Timeout after 10 seconds"
                /\ gathered[i].fault = "raise" => log[i][1] = "error: exception"
                /\ gathered[i].fault = "none" =>
                      log[i][1] \in {"success", "error: No documentation found"}
    /\ pbar = Cardinality({i \in DOMAIN api_methods : task[i] = "done"})
    /\ pbar = Len(completion)
    /\ Collected => pbar = Len(api_methods)

\* The batch of two is gathered: the first method timed out and has its
\* failure line, the second has its success line, the counter is at two.
C32_Witness ==
    /\ Collected
    /\ Len(api_methods) = 2
    /\ gathered[1].fault = "timeout"
    /\ log[1] = <<"error: Timeout after 10 seconds">>
    /\ log[2] = <<"success">>
    /\ pbar = 2

\* C38: process_with_logging logs a success line for a method exactly when
\* at least one of the six discovery fields of its record holds a URL, a value
\* that is neither "" nor "error", and a failure line otherwise; and the
\* record it returns is the one process_method produced, unchanged.
C38_SuccessIffSomeUrl ==
    \A i \in DOMAIN api_methods :
       task[i] = "done" =>
          LET r == task_outcome[i].rec
              someUrl == \E f \in LinkFields : r[f] \notin {"", "error"}
          IN /\ task_outcome[i].kind = "return"
             /\ log[i] # <<>>
             /\ (log[i][1] = "success") = someUrl
             /\ ~someUrl => log[i][1] \in {"error: No documentation found",
                                           "error: Timeout after 10 seconds",
                                           "error: exception"}
             /\ gathered[i].fault = "none" =>
                   /\ r = ExpectedRecord(api_methods[i], gathered[i])
                   /\ ~someUrl => log[i][1] = "error: No documentation found"

\* One method has its success line for a link that only a search slot found,
\* the other its failure line for a record of "" and "error" only.
C38_Witness ==
    /\ Len(api_methods) = 2
    /\ task[1] = "done" /\ task[2] = "done"
    /\ gathered[1].fault = "none" /\ gathered[2].fault = "none"
    /\ log[1] = <<"success">>
    /\ task_outcome[1].rec.openapi_link = ""
    /\ task_outcome[1].rec.postman_link = ""
    /\ IsLink(task_outcome[1].rec.ai_method_link)
    /\ log[2] = <<"error: No documentation found">>
    /\ task_outcome[2].rec.openapi_link = ""
    /\ \E s \in Slots : task_outcome[2].rec[s] = "error"

\* C26: each record handed to save_results belongs to the descriptor at its
\* place: its name, method and example URL are that descriptor's, there is
\* exactly one record per descriptor and one descriptor per record, and the
\* files hold them at the same places, whatever order the tasks ended in.
C26_RecordOfOwnDescriptor ==
    Collected =>
       /\ DOMAIN results = DOMAIN api_methods
       /\ \A i \in DOMAIN results :
             /\ results[i].name = api_methods[i].name
             /\ results[i].method = api_methods[i].method
             /\ results[i].method_link = method_link(api_methods[i])
       /\ \A i \in DOMAIN api_methods :
             Cardinality({j \in DOMAIN results :
                             /\ results[j].name = api_methods[i].name
                             /\ results[j].method = api_methods[i].method}) = 1
       /\ main_pc = "saved" =>
             \A i \in DOMAIN api_methods :
                /\ json_items[i].name = api_methods[i].name
                /\ json_items[i].method = api_methods[i].method
                /\ csv_rows[i][Column("name")] = api_methods[i].name

\* The second task ended before the first, with another kind of result, and
\* the records were saved at the places of their descriptors.
C26_Witness ==
    /\ main_pc = "saved"
    /\ completion = <<2, 1>>
    /\ results[1].name = api_methods[1].name
    /\ results[2].name = api_methods[2].name
    /\ IsLink(results[2].openapi_link)
    /\ results[1].openapi_link = ""
    /\ json_items[2].name = api_methods[2].name

----------------------------------------------------------------------------
(* save_results on records whose fields hold every kind of value              *)

\* A record whose URL fields hold the values from the n-th on, in turn.
OutputRecord(n) ==
    [f \in {fieldnames[k] : k \in DOMAIN fieldnames} |->
        IF f = "name" THEN "Zoom"
        ELSE IF f = "method" THEN "Create meeting"
        ELSE FieldValues[((n + Column(f)) % Len(FieldValues)) + 1]]

OutputRecords == {OutputRecord(n) : n \in DOMAIN FieldValues}

\* main is about to call save_results with at most MaxBatch records.
InitOutput ==
    /\ PipelineIdle
    /\ NoSelect
    /\ NoCandidate
    /\ NoOutput
    /\ NoLoader /\ NoHost /\ NoTracker
    /\ api_methods = <<>>
    /\ main_pc = "gathered"
    /\ task = <<>>
    /\ gathered = <<>>
    /\ task_outcome = <<>>
    /\ log = <<>>
    /\ pbar = 0
    /\ completion = <<>>
    /\ results \in UNION {[1..n -> OutputRecords] : n \in 0..MaxBatch}

NextOutput == \E ok \in BOOLEAN : main_saved(ok)

SpecOutput == InitOutput /\ [][NextOutput]_vars

\* C24: persistence normalises every URL field of every record: an empty or
\* missing value is written as the empty string, "error" as "error", an
\* absolute http or https URL as it is and any other value as "error"; the
\* row of the table and the object of the list hold the same values for the
\* same record.
C24_UrlFieldsNormalised ==
    main_pc = "saved" =>
       /\ Len(csv_rows) = Len(results)
       /\ Len(json_items) = Len(results)
       /\ \A i \in DOMAIN results :
             /\ \A k \in DOMAIN fieldnames : csv_rows[i][k] = json_items[i][fieldnames[k]]
             /\ \A f \in UrlFields :
                   json_items[i][f] =
                      IF results[i][f] \in {NoneV, ""} THEN ""
                      ELSE IF results[i][f] = "error" THEN "error"
                      ELSE IF results[i][f] \in AbsoluteHttpUrls THEN results[i][f]
                      ELSE "error"

\* Two records were written, one with an example URL of another scheme and a
\* link that is no URL: both fields are written as "error".
C24_Witness ==
    /\ main_pc = "saved"
    /\ Len(results) = 2
    /\ \E i \in DOMAIN results :
          /\ results[i].method_link = "ftp://example.com/x"
          /\ results[i].openapi_link = "not a url"
          /\ json_items[i].method_link = "error"
          /\ csv_rows[i][Column("openapi_link")] = "error"
    /\ \E i \in DOMAIN results :
          /\ results[i].openapi_link = "HTTP://Example.com/a?b#c"
          /\ json_items[i].openapi_link = "HTTP://Example.com/a?b#c"

----------------------------------------------------------------------------
(* loader.py *)

MaxRows == 2

\* Largest number of records in the results file convert_results reads.
MaxConvert == 2

RECURSIVE lstrip(_)
\* s.lstrip() (the strings here have no whitespace but spaces)
lstrip(s) ==
    IF Len(s) > 0 /\ SubSeq(s, 1, 1) = " " THEN lstrip(SubSeq(s, 2, Len(s))) ELSE s

RECURSIVE rstrip(_)
\* s.rstrip()
rstrip(s) ==
    IF Len(s) > 0 /\ SubSeq(s, Len(s), Len(s)) = " "
    THEN rstrip(SubSeq(s, 1, Len(s) - 1))
    ELSE s

\* s.strip()
Strip(s) == rstrip(lstrip(s))

required_fields == {"name", "method", "method_link"}

\* A well-formed value of each field.
GoodValue ==
    [name |-> "Zoom", method |-> "Create meeting",
     method_link |-> "https://api.zoom.us/v2/users/me/meetings"]

\* What a cell of a CSV row can hold: a value, a value between spaces, nothing,
\* spaces only, or None (csv.DictReader's restval) when the row is shorter
\* than the header.
CsvValues(f) == {GoodValue[f], " " \o GoodValue[f] \o "  ", "", "   ", NoneV}

\* What a key of a JSON object can hold: the same strings, null, or no such key.
JsonValues(f) == {GoodValue[f], " " \o GoodValue[f] \o "  ", "", "   ", NoneV, Absent}

\* The rows and the items of the input files: at most one field of a row is
\* not the well-formed value.
CsvRows ==
    {row \in [required_fields -> UNION {CsvValues(f) : f \in required_fields}] :
        /\ \A f \in required_fields : row[f] \in CsvValues(f)
        /\ Cardinality({f \in required_fields : row[f] # GoodValue[f]}) <= 1}

JsonItems ==
    {item \in [required_fields -> UNION {JsonValues(f) : f \in required_fields}] :
        /\ \A f \in required_fields : item[f] \in JsonValues(f)
        /\ Cardinality({f \in required_fields : item[f] # GoodValue[f]}) <= 1}

\* APIMethod(name=row['name'].strip(), ...)
APIMethod(row) == [f \in required_fields |-> Strip(row[f])]

\* _load_csv, the rows of the reader on: None has no strip, the AttributeError
\* is re-raised as ValueError and nothing is returned.
csv_missing_values(row) == {f \in required_fields : Strip(get(row, f)) = ""}

csv_raises(rows) ==
    \E i \in DOMAIN rows : \E f \in required_fields : get(rows[i], f) = NoneV

load_csv_rows(rows) ==
    LET kept == SelectSeq(rows, LAMBDA row : csv_missing_values(row) = {})
    IN [i \in DOMAIN kept |-> APIMethod(kept[i])]

\* _load_json, the items of the array on: the value is tested before it is
\* stripped.
json_missing_fields(item) == {f \in required_fields : ~Truthy(get(item, f))}

load_json_items(items) ==
    LET kept == SelectSeq(items, LAMBDA item : json_missing_fields(item) = {})
    IN [i \in DOMAIN kept |-> APIMethod(kept[i])]

\* load_from_file is about to be called on a file of at most MaxRows rows.
InitLoader ==
    /\ PipelineIdle
    /\ NoBatch
    /\ NoSelect
    /\ NoCandidate
    /\ NoOutput
    /\ NoHost /\ NoTracker
    /\ load_outcome = "none"
    /\ loaded = <<>>
    /\ \/ /\ suffix = ".csv"
          /\ raw_rows \in UNION {[1..n -> CsvRows] : n \in 0..MaxRows}
       \/ /\ suffix = ".json"
          /\ raw_rows \in UNION {[1..n -> JsonItems] : n \in 0..MaxRows}

load_csv ==
    /\ load_outcome = "none"
    /\ suffix = ".csv"
    /\ IF csv_raises(raw_rows)
       THEN load_outcome' = "ValueError" /\ UNCHANGED loaded
       ELSE load_outcome' = "return" /\ loaded' = load_csv_rows(raw_rows)
    /\ UNCHANGED <<suffix, raw_rows, pipelineVars, batchVars, selectVars,
                   candidateVars, outputVars, hostVars, trackerVars>>

load_json ==
    /\ load_outcome = "none"
    /\ suffix = ".json"
    /\ load_outcome' = "return"
    /\ loaded' = load_json_items(raw_rows)
    /\ UNCHANGED <<suffix, raw_rows, pipelineVars, batchVars, selectVars,
                   candidateVars, outputVars, hostVars, trackerVars>>

NextLoader == load_csv \/ load_json

SpecLoader == InitLoader /\ [][NextLoader]_vars

\* The row or item has its three required fields, none of them empty or of
\* whitespace only.
Complete(row) ==
    \A f \in required_fields : row[f] \notin {NoneV, Absent} /\ Strip(row[f]) # ""

\* C25: every descriptor the loader hands on has a non-empty name, method and
\* example URL: a row or an item with a missing or whitespace-only required
\* field is skipped, in a CSV file and in a JSON file, and the others are
\* loaded.
C25_LoadedFieldsNonEmpty ==
    /\ \A i \in DOMAIN loaded : \A f \in required_fields : loaded[i][f] # ""
    /\ load_outcome = "return" =>
          LET kept == SelectSeq(raw_rows, Complete)
          IN loaded = [i \in DOMAIN kept |-> APIMethod(kept[i])]

\* A JSON item whose name is spaces only was loaded as a descriptor with the
\* empty name.
C25_Witness ==
    /\ suffix = ".json"
    /\ load_outcome = "return"
    /\ \E i \in DOMAIN raw_rows : raw_rows[i].name = "   "
    /\ \E i \in DOMAIN loaded : loaded[i].name = ""

\* ---------------------------------------------------------------------------
\* Host normalisation: PostmanSearch._search_by_domain and
\* SerpSearch._is_relevant_to_service clean the host of a URL before they use it.

\* What stands before the registered name of a host.
HostPrefixes == {"", "api.", "www.", "docs.", "developers.", "dev.", "open", "API."}

\* The rest of the host.
HostBases == {"example.com", "api.example.com", "zoom.us", "webdev.io", "my.www.net"}

Hosts == {p \o b : p \in HostPrefixes, b \in HostBases}

\* The URL with that host.
UrlOf(h) == "https://" \o h \o "/v1/users"

\* PostmanSearch._search_by_domain: the search query made of the method link.
domain_clean(link) ==
    Remove(Remove(urlparse(link).netloc, "api."), "www.")

InitHost ==
    /\ PipelineIdle
    /\ NoBatch
    /\ NoSelect
    /\ NoCandidate
    /\ NoOutput
    /\ NoLoader
    /\ NoTracker
    /\ host \in Hosts
    /\ host_routine = "none"
    /\ host_clean = ""

\* _search_by_domain up to its search query.
search_by_domain_cleans ==
    /\ host_routine = "none"
    /\ host_routine' = "_search_by_domain"
    /\ host_clean' = domain_clean(UrlOf(host))
    /\ UNCHANGED <<host, pipelineVars, batchVars, selectVars, candidateVars,
                   outputVars, loaderVars, trackerVars>>

\* _is_relevant_to_service cleaning the host of the descriptor's method link.
relevance_cleans_method_domain ==
    /\ host_routine = "none"
    /\ host_routine' = "method_domain"
    /\ host_clean' = method_domain_clean([scheme |-> "https", netloc |-> host,
                                          path |-> "/v1/users", name |-> "Zoom",
                                          method |-> "Create meeting"])
    /\ UNCHANGED <<host, pipelineVars, batchVars, selectVars, candidateVars,
                   outputVars, loaderVars, trackerVars>>

\* _is_relevant_to_service cleaning the host of a candidate's URL.
relevance_cleans_url_domain ==
    /\ host_routine = "none"
    /\ host_routine' = "url_domain"
    /\ host_clean' = url_domain_clean(UrlOf(host))
    /\ UNCHANGED <<host, pipelineVars, batchVars, selectVars, candidateVars,
                   outputVars, loaderVars, trackerVars>>

NextHost ==
    \/ search_by_domain_cleans
    \/ relevance_cleans_method_domain
    \/ relevance_cleans_url_domain

SpecHost == InitHost /\ [][NextHost]_vars

\* The generic prefixes a routine strips.
GenericPrefixes(routine) ==
    IF routine = "url_domain" THEN {"api.", "www.", "docs.", "developers.", "dev."}
    ELSE {"api.", "www."}

RECURSIVE StripLeading(_, _)
\* h without the generic prefixes it starts with, the rest as it was.
StripLeading(h, prefixes) ==
    IF \E p \in prefixes : StartsWith(h, p)
    THEN StripLeading(SubSeq(h, Len(CHOOSE p \in prefixes : StartsWith(h, p)) + 1, Len(h)),
                      prefixes)
    ELSE h

\* The host as the routine reads it: the relevance filter lower-cases it first.
HostRead == IF host_routine = "_search_by_domain" THEN host ELSE Lower(host)

\* C34: the host normalisation strips only the generic prefixes a host starts
\* with (api., www.; for a candidate's host also docs., developers., dev.): an
\* occurrence inside a longer label or later in the host, as in
\* openapi.example.com, is left untouched.
C34_OnlyLeadingPrefixes ==
    host_routine # "none" =>
        host_clean = StripLeading(HostRead, GenericPrefixes(host_routine))

\* The collection search by domain made "openexample.com" of openapi.example.com.
C34_Witness ==
    /\ host = "openapi.example.com"
    /\ host_routine = "_search_by_domain"
    /\ host_clean = "openexample.com"

\* ---------------------------------------------------------------------------
\* convert_to_tracker_format.py: the results file made into tracker entries.

\* The values a tier-1 field of a record of the results file holds.
OpenapiValues == {"", "error", "https://api.zoom.us/openapi.json", "https://api.zoom.us/swagger"}

PostmanValues == {"", "error", "https://www.postman.com/zoom-by-name/collection/1"}

\* The links the web search wrote: one specific page and two generic ones.
SearchUrls ==
    {"https://developers.zoom.us/docs/api/meetings#create",
     "https://zoom.us/docs",
     "https://zoom.us/api"}

\* The four search fields in the order convert_results reads them.
search_fields ==
    << "search_method_name", "search_method_link", "ai_method_name", "ai_method_link" >>

\* A record of the results file.
TrackerResult(oa, pm, searched) ==
    [name |-> "Zoom", method |-> "Create meeting",
     method_link |-> "https://api.zoom.us/v2/users/me/meetings",
     openapi_link |-> oa, postman_link |-> pm,
     search_method_name |-> searched[1], search_method_link |-> searched[2],
     ai_method_name |-> searched[3], ai_method_link |-> searched[4]]

\* What the four search fields hold next to a tier-1 link or a tier-1 failure.
SearchedBesides ==
    {<<"", "", "", "">>,
     <<"error", "error", "error", "error">>,
     <<"https://zoom.us/docs", "error", "https://zoom.us/api",
       "https://developers.zoom.us/docs/api/meetings#create">>,
     <<"error", "https://zoom.us/api", "", "https://zoom.us/docs">>}

\* The records of the results file: every pair of tier-1 values with some
\* search fields, and every filling of the search fields with no tier-1 link.
TrackerResults ==
    {TrackerResult(oa, pm, searched) :
        oa \in OpenapiValues, pm \in PostmanValues, searched \in SearchedBesides}
    \cup {TrackerResult("", "", searched) :
            searched \in [1..4 -> {""} \cup SearchUrls]}

\* The generic endings score_url_specificity puts a penalty on ('$' removed).
specificity_generic_patterns ==
    << "/docs", "/documentation", "/api", "/reference", "/guide", "/methods/", "/api/" >>

RECURSIVE SumSeq(_)
\* sum(values)
SumSeq(values) ==
    IF values = <<>> THEN 0 ELSE Head(values) + SumSeq(Tail(values))

\* score_url_specificity
score_url_specificity(url, method_name) ==
    LET url_lower == Lower(url)
        method_words == SelectSeq(Words(Lower(method_name)), LAMBDA w : Len(w) > 3)
        path_parts == NonEmpty(Split(urlparse(url).path, "/"))
    IN  (IF In("#", url) THEN 100 ELSE 0)
      + SumSeq([i \in DOMAIN method_words |->
                   IF In(method_words[i], url_lower) THEN 30 ELSE 0])
      - SumSeq([i \in DOMAIN specificity_generic_patterns |->
                   IF EndsWith(url_lower, specificity_generic_patterns[i]) THEN 50 ELSE 0])
      - (IF \E domain \in {"stackoverflow.com", "medium.com", "community.", "forum."} :
                In(domain, url_lower)
         THEN 30 ELSE 0)
      + (IF \E pattern \in {"developers.", "docs.", "api.", "dev."} : In(pattern, url_lower)
         THEN 20 ELSE 0)
      + (IF Len(path_parts) >= 4 THEN 40 ELSE IF Len(path_parts) >= 3 THEN 20 ELSE 0)

\* score_url_specificity of the links of the search fields, worked out once.
Specificity == [url \in SearchUrls |-> score_url_specificity(url, "Create meeting")]

\* url and url not in ('', 'error')
usable(url) == Truthy(url) /\ url \notin {"", "error"}

\* The (score, url) pairs of the usable search fields, in field order.
candidates_of(r) ==
    LET urls == SelectSeq([i \in DOMAIN search_fields |-> r[search_fields[i]]], usable)
    IN  [i \in DOMAIN urls |-> <<Specificity[urls[i]], urls[i]>>]

RECURSIVE sort_reverse_unstable(_)
\* A sort by score, highest first, that puts the later of two equal scores first.
sort_reverse_unstable(pairs) ==
    IF pairs = <<>> THEN <<>>
    ELSE LET sorted == sort_reverse_unstable(SubSeq(pairs, 1, Len(pairs) - 1))
             last == pairs[Len(pairs)]
             ahead == SelectSeq(sorted, LAMBDA c : c[1] > last[1])
             behind == SelectSeq(sorted, LAMBDA c : c[1] <= last[1])
         IN  ahead \o <<last>> \o behind

RECURSIVE sort_reverse(_)
\* candidates.sort(reverse=True, key=lambda x: x[0]): stable, highest first.
sort_reverse(pairs) ==
    IF pairs = <<>> THEN <<>>
    ELSE LET sorted == sort_reverse(SubSeq(pairs, 1, Len(pairs) - 1))
             last == pairs[Len(pairs)]
             ahead == SelectSeq(sorted, LAMBDA c : c[1] >= last[1])
             behind == SelectSeq(sorted, LAMBDA c : c[1] < last[1])
         IN  ahead \o <<last>> \o behind

\* convert_results: doc_url and doc_type of one record, NoneV if it has none.
doc_of(r) ==
    IF usable(r.openapi_link)
    THEN [doc_url |-> r.openapi_link,
          doc_type |-> IF \E ext \in {".json", ".yaml", ".yml"} : EndsWith(r.openapi_link, ext)
                       THEN "openapi" ELSE "html"]
    ELSE IF usable(r.postman_link)
    THEN [doc_url |-> r.postman_link, doc_type |-> "postman"]
    ELSE IF candidates_of(r) # <<>>
    THEN [doc_url |-> sort_reverse(candidates_of(r))[1][2], doc_type |-> "html"]
    ELSE [doc_url |-> NoneV, doc_type |-> NoneV]

\* The fixed words of the description (Cyrillic in the source, transliterated).
DescriptionHead == "Monitoring dokumentatsii metoda "

\* The tracker entry of a record that has a documentation URL.
tracker_entry(r) ==
    [url |-> doc_of(r).doc_url,
     type |-> doc_of(r).doc_type,
     name |-> r.name \o " API - " \o r.method,
     description |-> DescriptionHead \o r.method \o " v " \o r.name,
     method_filter |-> IF /\ doc_of(r).doc_type = "openapi"
                          /\ Truthy(r.method_link)
                          /\ urlparse(r.method_link).path # ""
                       THEN urlparse(r.method_link).path
                       ELSE Absent]

\* What one turn of the loop appends for each record, worked out once.
Appended ==
    [r \in TrackerResults |->
        IF Truthy(doc_of(r).doc_url) THEN <<tracker_entry(r)>> ELSE <<>>]

InitTracker ==
    /\ PipelineIdle
    /\ NoBatch
    /\ NoSelect
    /\ NoCandidate
    /\ NoOutput
    /\ NoLoader
    /\ NoHost
    /\ converted = 0
    /\ last_result = NoResult
    /\ tracker_format = <<>>

\* One turn of the loop over the records of the results file.
convert_result(r) ==
    /\ converted < MaxConvert
    /\ converted' = converted + 1
    /\ last_result' = r
    /\ tracker_format' = tracker_format \o Appended[r]
    /\ UNCHANGED <<pipelineVars, batchVars, selectVars, candidateVars,
                   outputVars, loaderVars, hostVars>>

NextTracker == \E r \in TrackerResults : convert_result(r)

SpecTracker == InitTracker /\ [][NextTracker]_vars

\* The field holds a URL: it is neither empty nor the failure sentinel.
HoldsUrl(v) == v \notin {"", "error"}

\* The places of the search fields of r that hold a URL.
SearchHits(r) == {i \in DOMAIN search_fields : HoldsUrl(r[search_fields[i]])}

\* The URL the priority rule names for r, NoneV if no field of r holds one.
PriorityUrl(r) ==
    IF HoldsUrl(r.openapi_link) THEN r.openapi_link
    ELSE IF HoldsUrl(r.postman_link) THEN r.postman_link
    ELSE IF SearchHits(r) = {} THEN NoneV
    ELSE r[search_fields[
            CHOOSE i \in SearchHits(r) : \A j \in SearchHits(r) :
                \/ Specificity[r[search_fields[i]]] > Specificity[r[search_fields[j]]]
                \/ /\ Specificity[r[search_fields[i]]] = Specificity[r[search_fields[j]]]
                   /\ i <= j]]

\* C35: convert_results emits at most one tracker entry per record and takes
\* its URL by priority: the openapi_link if it is a URL, else the postman_link
\* if it is a URL, else the highest-scoring URL of the four search fields, the
\* first in field order among equal scores; a record with no URL in any of the
\* six fields emits no entry.
C35_OneEntryByPriority ==
    [][converted' = converted + 1 =>
          IF PriorityUrl(last_result') = NoneV
          THEN tracker_format' = tracker_format
          ELSE /\ Len(tracker_format') = Len(tracker_format) + 1
               /\ SubSeq(tracker_format', 1, Len(tracker_format)) = tracker_format
               /\ tracker_format'[Len(tracker_format')].url = PriorityUrl(last_result')]_vars

\* A record with no tier-1 link and two search links of equal score, the
\* earlier field's link taken; before it a record that gave no entry.
C35_Witness ==
    /\ converted = 2
    /\ Len(tracker_format) = 1
    /\ last_result.openapi_link = ""
    /\ last_result.postman_link = ""
    /\ last_result.search_method_name = ""
    /\ last_result.search_method_link = "https://zoom.us/api"
    /\ last_result.ai_method_name = "https://zoom.us/docs"
    /\ last_result.ai_method_link = ""
    /\ Specificity["https://zoom.us/api"] = Specificity["https://zoom.us/docs"]
    /\ tracker_format[1].url = "https://zoom.us/api"

====
